---- MODULE Spec2Model ----
(***************************************************************************)
(* Drill-down navigation and detail overlay of the three dashboards of the *)
(* repository:                                                             *)
(*   Dashboard           src/armaannew.jsx  (variables d_.., modal m_..)   *)
(*   App                 src/armaan.jsx     (variables a_..)               *)
(*   AnalyticsDashboard  src/finops.jsx     (variables f_..)               *)
(* Each is a React component: its useState cells are the variables, every  *)
(* event handler is one action (React runs a handler to its first await    *)
(* atomically), and every awaited fetch is an entry of inflight whose      *)
(* continuation is a second action, taken when the response arrives.       *)
(* prog says which of the three components is mounted in a behaviour.      *)
(* The table component of each dashboard (search, sort, pages, CSV export) *)
(* is a component of its own with its own useState cells (variables t_..); *)
(* it is mounted alone, over a dataset given as its data prop, when prog   *)
(* is one of Tables.                                                       *)
(***************************************************************************)
EXTENDS Integers, Sequences, FiniteSets, TLC

VARIABLES
  prog,              \* which component is mounted
  inflight,          \* requests awaiting their response, in issue order
  ev,                \* the handler or continuation that ran last (observation)
  \* Dashboard (armaannew.jsx:377-385)
  d_currentView, d_warehouses, d_users, d_drillDownData, d_queriesData,
  d_selectedQueryId, d_isLoading, d_error, d_showQueryModal,
  d_origin,          \* observation: the view the current query list was requested from
  \* QueryDetailsModal (armaannew.jsx:267-269)
  m_queryDetails, m_isLoading, m_error,
  \* App (armaan.jsx:197-212)
  a_currentView, a_loading, a_toast, a_warehousesData, a_usersData,
  a_drillDownData, a_queriesData, a_queryDetails, a_selectedWarehouse,
  a_selectedUser, a_selectedKPI, a_breadcrumbs,
  a_page,            \* "app" while the document is shown, "left" once the browser left it
  \* AnalyticsDashboard (finops.jsx:207-211)
  f_activeTab, f_loading, f_data, f_drillDownData, f_selectedQuery,
  \* the table component (armaannew.jsx:58-69, finops.jsx:55-66, armaan.jsx:47-49)
  t_data,            \* the data prop
  t_searchTerm, t_sortConfig, t_currentPage

dvars == <<d_currentView, d_warehouses, d_users, d_drillDownData, d_queriesData,
           d_selectedQueryId, d_isLoading, d_error, d_showQueryModal, d_origin>>
mvars == <<m_queryDetails, m_isLoading, m_error>>
avars == <<a_currentView, a_loading, a_toast, a_warehousesData, a_usersData,
           a_drillDownData, a_queriesData, a_queryDetails, a_selectedWarehouse,
           a_selectedUser, a_selectedKPI, a_breadcrumbs, a_page>>
fvars == <<f_activeTab, f_loading, f_data, f_drillDownData, f_selectedQuery>>
tvars == <<t_data, t_searchTerm, t_sortConfig, t_currentPage>>
vars == <<prog, inflight, ev, dvars, mvars, avars, fvars, tvars>>

----------------------------------------------------------------------------
(* Values.  A cell value is a number, null, or undefined (a missing field). *)

NumV(n) == [t |-> "num", v |-> n]
NullV == [t |-> "null"]
UndefV == [t |-> "undefined"]
\* null in a slot that otherwise holds a string (an error message, a query id)
Null == "null"

\* JavaScript truthiness of a cell value or of a stored object
Truthy(v) == v # NullV /\ v # UndefV /\ v # NumV(0)

\* a step of one component leaves the other two as they are
D_Frame == prog = "Dashboard" /\ UNCHANGED <<prog, avars, fvars, tvars>>
A_Frame == prog = "App" /\ UNCHANGED <<prog, dvars, mvars, fvars, tvars>>
F_Frame == prog = "AnalyticsDashboard" /\ UNCHANGED <<prog, dvars, mvars, avars, tvars>>

\* the most requests that may be awaiting a response at once
MaxInFlight == 2

\* the longest breadcrumb trail the model follows
MaxBreadcrumbs == 4

RemoveAt(s, i) == SubSeq(s, 1, i - 1) \o SubSeq(s, i + 1, Len(s))

\* A request as issued: its kind and its two arguments.  Two fields observe it:
\* from is the view it was issued from, closed says that the detail overlay was
\* closed while it was awaited.
Req(kind, a, b, from) == [kind |-> kind, a |-> a, b |-> b, from |-> from, closed |-> FALSE]

\* the awaited requests, the detail requests among them marked closed
MarkClosed(s, detailKind) ==
  [i \in 1..Len(s) |-> IF s[i].kind = detailKind THEN [s[i] EXCEPT !.closed = TRUE] ELSE s[i]]

\* how a fetch can end: a 2xx response, a non-2xx response, no response at all
Outcomes == {"ok", "status", "network"}

----------------------------------------------------------------------------
(* The data the server holds (the external request/response contract).     *)

ServerWarehouses ==
  << [WAREHOUSE_NAME |-> "WH1", QUERIES_1_10_SEC |-> NumV(5), FAILED_QUERIES |-> NullV],
     [WAREHOUSE_NAME |-> "WH2", QUERIES_1_10_SEC |-> NumV(0), FAILED_QUERIES |-> NumV(3)] >>

ServerUsers ==
  << [user_name |-> "alice", slow_queries |-> NumV(2)],
     [user_name |-> "bob", slow_queries |-> NumV(0)] >>

\* GET /users answers with the users as the server holds them when the load is
\* issued: those of the load on mount (1), or those of a later load (2), the
\* server's counts having grown meanwhile
ServerUsersAt(n) == [ServerUsers EXCEPT ![1].slow_queries = NumV(n + 1)]

\* POST /warehouse/drill-down: the per-user rows of one warehouse and column
DrillDownResponse(warehouseName, columnSelected) ==
  [warehouse_name |-> warehouseName, column_selected |-> columnSelected,
   user_analysis |->
     << [username |-> "alice", query_count |-> 2, query_ids |-> <<"q1", "q2">>],
        [username |-> "bob", query_count |-> 0, query_ids |-> <<>>] >>]

\* POST /queries/batch: one preview row per requested id
BatchResponse(queryIds) == [i \in 1..Len(queryIds) |-> [QUERY_ID |-> queryIds[i]]]

\* POST /user/drill-down: data.queries, the previews of one user's flagged queries
UserDrillDownResponse(userName, columnSelected) ==
  IF userName = "alice" THEN BatchResponse(<<"q1", "q2">>) ELSE <<>>

\* GET /query/<id>: the full record of one query
QueryDetailsResponse(queryId) == [QUERY_ID |-> queryId]

----------------------------------------------------------------------------
(* Dashboard (armaannew.jsx)                                               *)

warehouseColumns == {"WAREHOUSE_NAME", "QUERIES_1_10_SEC", "FAILED_QUERIES"}
userColumns == {"user_name", "slow_queries"}
clickableWarehouseColumns == {"QUERIES_1_10_SEC", "FAILED_QUERIES"}
clickableUserColumns == {"slow_queries"}

\* The modal's backdrop (fixed inset-0, z-50) lies over the page while it is open.
D_PageActive == ~d_showQueryModal

\* renderContent shows the table of `view`: no error panel, and DataTable is
\* not replaced by its loading skeleton.
D_TableShown(view) ==
  D_PageActive /\ d_error = Null /\ d_currentView = view /\ ~d_isLoading

CanIssue == Len(inflight) < MaxInFlight

\* loadWarehouses up to its await
D_loadWarehouses ==
  /\ d_isLoading' = TRUE
  /\ inflight' = Append(inflight, Req("fetchWarehouses", Null, Null, d_currentView))

\* which users are stored: none (0), those of the load on mount (1), later ones (2)
D_usersLoaded == IF d_users = << >> THEN 0 ELSE d_users[1].slow_queries.v - 1

\* loadUsers up to its await, called by Retry or Refresh: a load after the one
\* on mount
D_loadUsers ==
  /\ d_isLoading' = d_isLoading
  /\ inflight' = Append(inflight, Req("fetchUsers", 2, Null, d_currentView))

\* a reload that fetches the warehouses whatever list is shown
D_reloadWarehousesOnly ==
  /\ d_error' = Null
  /\ IF d_currentView \in {"warehouses", "users"} THEN D_loadWarehouses
     ELSE UNCHANGED <<d_isLoading, inflight>>

\* the body shared by the Retry and the Refresh button
D_reload ==
  /\ d_error' = Null
  /\ IF d_currentView = "warehouses" THEN D_loadWarehouses
     ELSE IF d_currentView = "users" THEN D_loadUsers
     ELSE UNCHANGED <<d_isLoading, inflight>>

D_Retry ==
  /\ D_Frame
  /\ D_PageActive /\ d_error # Null /\ CanIssue
  /\ D_reload
  /\ ev' = [op |-> "retry", view |-> d_currentView]
  /\ UNCHANGED <<d_currentView, d_warehouses, d_users, d_drillDownData, d_queriesData,
                 d_selectedQueryId, d_showQueryModal, d_origin, mvars>>

D_Refresh ==
  /\ D_Frame
  /\ D_PageActive /\ ~d_isLoading /\ CanIssue
  /\ D_reload
  /\ ev' = [op |-> "refresh", view |-> d_currentView]
  /\ UNCHANGED <<d_currentView, d_warehouses, d_users, d_drillDownData, d_queriesData,
                 d_selectedQueryId, d_showQueryModal, d_origin, mvars>>

\* a navigation tab that also dismisses the error panel
D_TabClearsError(view) ==
  /\ D_Frame
  /\ D_PageActive
  /\ d_currentView' = view
  /\ d_error' = Null
  /\ ev' = [op |-> "tab", view |-> view]
  /\ UNCHANGED <<inflight, d_warehouses, d_users, d_drillDownData, d_queriesData,
                 d_selectedQueryId, d_isLoading, d_showQueryModal, d_origin, mvars>>

\* the two navigation tabs
D_Tab(view) ==
  /\ D_Frame
  /\ D_PageActive
  /\ d_currentView' = view
  /\ ev' = [op |-> "tab", view |-> view]
  /\ UNCHANGED <<inflight, d_warehouses, d_users, d_drillDownData, d_queriesData,
                 d_selectedQueryId, d_isLoading, d_error, d_showQueryModal, d_origin, mvars>>

\* DataTable.handleCellClick passes the click on only for a clickable column
D_handleCellClick(clickableColumns, columnKey) == columnKey \in clickableColumns

\* mutation of D_warehouseCellInert: every value is inert, also a positive one
D_warehouseCellInertAlways(value) == value \in {NumV(0), NullV} \/ value.t = "num"

\* handleWarehouseCellClick's early return
D_warehouseCellInert(value) == value = NumV(0) \/ value = NullV

\* a click on a cell of the warehouses table
D_WarehouseCellClick(r, columnKey) ==
  LET rowData == d_warehouses[r]
      value == rowData[columnKey]
      passed == D_handleCellClick(clickableWarehouseColumns, columnKey)
      issues == passed /\ ~D_warehouseCellInert(value)
  IN /\ D_Frame
     /\ D_TableShown("warehouses")
     /\ issues => CanIssue
     /\ ev' = [op |-> "warehouseCellClick", row |-> rowData, col |-> columnKey,
               passed |-> passed]
     /\ IF issues
        THEN /\ d_isLoading' = TRUE
             /\ inflight' = Append(inflight,
                   Req("warehouseDrillDown", rowData.WAREHOUSE_NAME, columnKey, d_currentView))
        ELSE UNCHANGED <<d_isLoading, inflight>>
     /\ UNCHANGED <<d_currentView, d_warehouses, d_users, d_drillDownData, d_queriesData,
                    d_selectedQueryId, d_error, d_showQueryModal, d_origin, mvars>>

\* a click on a cell of the users table
D_UserCellClick(r, columnKey) ==
  LET rowData == d_users[r]
      value == rowData[columnKey]
      passed == D_handleCellClick(clickableUserColumns, columnKey)
  IN /\ D_Frame
     /\ D_TableShown("users")
     /\ passed => CanIssue
     /\ ev' = [op |-> "userCellClick", row |-> rowData, col |-> columnKey,
               passed |-> passed]
     /\ IF passed
        THEN /\ d_isLoading' = TRUE
             /\ inflight' = Append(inflight,
                   Req("userDrillDown", rowData.user_name, columnKey, d_currentView))
        ELSE UNCHANGED <<d_isLoading, inflight>>
     /\ UNCHANGED <<d_currentView, d_warehouses, d_users, d_drillDownData, d_queriesData,
                    d_selectedQueryId, d_error, d_showQueryModal, d_origin, mvars>>

\* the rows of the drill-down table: drillDownData?.user_analysis || []
D_drillDownRows ==
  IF d_drillDownData = NullV THEN {} ELSE 1..Len(d_drillDownData.user_analysis)

\* the View Queries button of a drill-down row
D_DrillDownUserClick(r) ==
  LET queryIds == d_drillDownData.user_analysis[r].query_ids
  IN /\ D_Frame
     /\ D_TableShown("drill-down") /\ CanIssue
     /\ r \in D_drillDownRows
     /\ d_isLoading' = TRUE
     /\ inflight' = Append(inflight, Req("fetchQueriesBatch", queryIds, Null, d_currentView))
     /\ ev' = [op |-> "drillDownUserClick", queryIds |-> queryIds]
     /\ UNCHANGED <<d_currentView, d_warehouses, d_users, d_drillDownData, d_queriesData,
                    d_selectedQueryId, d_error, d_showQueryModal, d_origin, mvars>>

\* Back to Warehouses, on the drill-down view
D_BackToWarehouses ==
  /\ D_Frame
  /\ D_PageActive /\ d_error = Null /\ d_currentView = "drill-down"
  /\ d_currentView' = "warehouses"
  /\ ev' = [op |-> "backToWarehouses"]
  /\ UNCHANGED <<inflight, d_warehouses, d_users, d_drillDownData, d_queriesData,
                 d_selectedQueryId, d_isLoading, d_error, d_showQueryModal, d_origin, mvars>>

\* a Back button of the query list that goes to the drill-down whatever is stored
D_backTargetAlwaysDrillDown == "drill-down"

\* the target of the Back button of the query list
D_backTarget == IF Truthy(d_drillDownData) THEN "drill-down" ELSE "warehouses"

\* Back, on the query list
D_BackFromQueries ==
  /\ D_Frame
  /\ D_PageActive /\ d_error = Null /\ d_currentView = "queries"
  /\ d_currentView' = D_backTarget
  /\ ev' = [op |-> "backFromQueries"]
  /\ UNCHANGED <<inflight, d_warehouses, d_users, d_drillDownData, d_queriesData,
                 d_selectedQueryId, d_isLoading, d_error, d_showQueryModal, d_origin, mvars>>

----------------------------------------------------------------------------
(* Dashboard: the detail overlay                                           *)

\* QueryDetailsModal's effect, run when isOpen or queryId changed
M_effect(isOpen, queryId) ==
  IF isOpen /\ queryId # Null
  THEN /\ m_isLoading' = TRUE
       /\ m_error' = Null
       /\ inflight' = Append(inflight, Req("fetchQueryDetails", queryId, Null, d_currentView))
       /\ UNCHANGED m_queryDetails
  ELSE UNCHANGED <<mvars, inflight>>

\* handleQueryDetailClick (View Details of a query row), then the modal's effect
D_QueryDetailClick(r) ==
  /\ D_Frame
  /\ D_TableShown("queries") /\ CanIssue
  /\ r \in 1..Len(d_queriesData)
  /\ d_selectedQueryId' = d_queriesData[r].QUERY_ID
  /\ d_showQueryModal' = TRUE
  /\ M_effect(TRUE, d_queriesData[r].QUERY_ID)
  /\ ev' = [op |-> "queryDetailClick", queryId |-> d_queriesData[r].QUERY_ID]
  /\ UNCHANGED <<d_currentView, d_warehouses, d_users, d_drillDownData, d_queriesData,
                 d_isLoading, d_error, d_origin>>

\* what onClose does to the modal's own state
M_onCloseState ==
  UNCHANGED mvars

\* onClose (the x button or the backdrop), then the modal's effect
D_ModalClose ==
  /\ D_Frame
  /\ d_showQueryModal
  /\ d_showQueryModal' = FALSE
  /\ d_selectedQueryId' = Null
  /\ M_onCloseState
  /\ inflight' = MarkClosed(inflight, "fetchQueryDetails")
  /\ ev' = [op |-> "modalClose", queryId |-> d_selectedQueryId]
  /\ UNCHANGED <<d_currentView, d_warehouses, d_users, d_drillDownData, d_queriesData,
                 d_isLoading, d_error, d_origin>>

----------------------------------------------------------------------------
(* Dashboard: the continuations of the awaited fetches.  apiService throws  *)
(* on a non-2xx response, fetch rejects when the network fails.            *)

D_failed(outcome) == outcome # "ok"

D_errorMessage(kind) ==
  CASE kind = "fetchWarehouses" -> "Failed to fetch warehouses"
    [] kind = "fetchUsers" -> "Failed to fetch users"
    [] kind = "fetchQueryDetails" -> "Failed to fetch query details"
    [] kind = "fetchQueriesBatch" -> "Failed to fetch queries batch"
    [] kind = "warehouseDrillDown" -> "Failed to perform warehouse drill-down"
    [] kind = "userDrillDown" -> "Failed to perform user drill-down"

D_message(kind, outcome) ==
  IF outcome = "status" THEN D_errorMessage(kind) ELSE "Failed to fetch"

D_Respond(i, kind, outcome) ==
  /\ i \in 1..Len(inflight) /\ inflight[i].kind = kind
  /\ inflight' = RemoveAt(inflight, i)
  /\ ev' = [op |-> "response", kind |-> kind, outcome |-> outcome, req |-> inflight[i]]

\* loadWarehouses with setIsLoading(false) at the end of the try block only
D_LoadWarehousesDoneNoFinally(i, outcome) ==
  /\ D_Frame
  /\ D_Respond(i, "fetchWarehouses", outcome)
  /\ IF D_failed(outcome)
     THEN /\ d_error' = D_message("fetchWarehouses", outcome)
          /\ UNCHANGED <<d_warehouses, d_isLoading>>
     ELSE /\ d_warehouses' = ServerWarehouses
          /\ d_isLoading' = FALSE
          /\ UNCHANGED d_error
  /\ UNCHANGED <<d_currentView, d_users, d_drillDownData, d_queriesData,
                 d_selectedQueryId, d_showQueryModal, d_origin, mvars>>

\* loadWarehouses after its await
D_LoadWarehousesDone(i, outcome) ==
  /\ D_Frame
  /\ D_Respond(i, "fetchWarehouses", outcome)
  /\ IF D_failed(outcome)
     THEN /\ d_error' = D_message("fetchWarehouses", outcome)
          /\ UNCHANGED d_warehouses
     ELSE /\ d_warehouses' = ServerWarehouses
          /\ UNCHANGED d_error
  /\ d_isLoading' = FALSE
  /\ UNCHANGED <<d_currentView, d_users, d_drillDownData, d_queriesData,
                 d_selectedQueryId, d_showQueryModal, d_origin, mvars>>

\* loadUsers after its await
D_LoadUsersDone(i, outcome) ==
  /\ D_Frame
  /\ D_Respond(i, "fetchUsers", outcome)
  /\ IF D_failed(outcome)
     THEN UNCHANGED d_users
     ELSE d_users' = ServerUsersAt(inflight[i].a)
  /\ UNCHANGED <<d_currentView, d_warehouses, d_drillDownData, d_queriesData,
                 d_selectedQueryId, d_isLoading, d_error, d_showQueryModal, d_origin, mvars>>

\* the view handleWarehouseCellClick sets on success
D_drillDownView == "drill-down"

\* handleWarehouseCellClick after its await
D_WarehouseDrillDownDone(i, outcome) ==
  /\ D_Frame
  /\ D_Respond(i, "warehouseDrillDown", outcome)
  /\ IF D_failed(outcome)
     THEN /\ d_error' = D_message("warehouseDrillDown", outcome)
          /\ UNCHANGED <<d_drillDownData, d_currentView>>
     ELSE /\ d_drillDownData' = DrillDownResponse(inflight[i].a, inflight[i].b)
          /\ d_currentView' = D_drillDownView
          /\ UNCHANGED d_error
  /\ d_isLoading' = FALSE
  /\ UNCHANGED <<d_warehouses, d_users, d_queriesData,
                 d_selectedQueryId, d_showQueryModal, d_origin, mvars>>

\* handleUserCellClick after its await
D_UserDrillDownDone(i, outcome) ==
  /\ D_Frame
  /\ D_Respond(i, "userDrillDown", outcome)
  /\ IF D_failed(outcome)
     THEN /\ d_error' = D_message("userDrillDown", outcome)
          /\ UNCHANGED <<d_queriesData, d_currentView, d_origin>>
     ELSE /\ d_queriesData' = UserDrillDownResponse(inflight[i].a, inflight[i].b)
          /\ d_currentView' = "queries"
          /\ d_origin' = inflight[i].from
          /\ UNCHANGED d_error
  /\ d_isLoading' = FALSE
  /\ UNCHANGED <<d_warehouses, d_users, d_drillDownData,
                 d_selectedQueryId, d_showQueryModal, mvars>>

\* handleDrillDownUserClick after its await
D_QueriesBatchDone(i, outcome) ==
  /\ D_Frame
  /\ D_Respond(i, "fetchQueriesBatch", outcome)
  /\ IF D_failed(outcome)
     THEN /\ d_error' = D_message("fetchQueriesBatch", outcome)
          /\ UNCHANGED <<d_queriesData, d_currentView, d_origin>>
     ELSE /\ d_queriesData' = BatchResponse(inflight[i].a)
          /\ d_currentView' = "queries"
          /\ d_origin' = inflight[i].from
          /\ UNCHANGED d_error
  /\ d_isLoading' = FALSE
  /\ UNCHANGED <<d_warehouses, d_users, d_drillDownData,
                 d_selectedQueryId, d_showQueryModal, mvars>>

\* the then / catch / finally chain of the modal's fetch
M_QueryDetailsDone(i, outcome) ==
  /\ D_Frame
  /\ D_Respond(i, "fetchQueryDetails", outcome)
  /\ IF D_failed(outcome)
     THEN /\ m_error' = D_message("fetchQueryDetails", outcome)
          /\ UNCHANGED m_queryDetails
     ELSE /\ m_queryDetails' = QueryDetailsResponse(inflight[i].a)
          /\ UNCHANGED m_error
  /\ m_isLoading' = FALSE
  /\ UNCHANGED dvars

----------------------------------------------------------------------------

\* Dashboard after its first render and mount effect: both loads are awaited
InitDashboard ==
  /\ d_currentView = "warehouses"
  /\ d_warehouses = <<>>
  /\ d_users = <<>>
  /\ d_drillDownData = NullV
  /\ d_queriesData = <<>>
  /\ d_selectedQueryId = Null
  /\ d_error = Null
  /\ d_showQueryModal = FALSE
  /\ d_origin = Null
  /\ m_queryDetails = NullV
  /\ m_isLoading = FALSE
  /\ m_error = Null

NextDashboard ==
  \/ D_Retry
  \/ D_Refresh
  \/ \E view \in {"warehouses", "users"} : D_Tab(view)
  \/ \E r \in 1..Len(d_warehouses), c \in warehouseColumns : D_WarehouseCellClick(r, c)
  \/ \E r \in 1..Len(d_users), c \in userColumns : D_UserCellClick(r, c)
  \/ \E r \in D_drillDownRows : D_DrillDownUserClick(r)
  \/ D_BackToWarehouses
  \/ D_BackFromQueries
  \/ \E r \in 1..Len(d_queriesData) : D_QueryDetailClick(r)
  \/ D_ModalClose
  \/ \E i \in 1..Len(inflight), o \in Outcomes :
       \/ D_LoadWarehousesDone(i, o)
       \/ D_LoadUsersDone(i, o)
       \/ D_WarehouseDrillDownDone(i, o)
       \/ D_UserDrillDownDone(i, o)
       \/ D_QueriesBatchDone(i, o)
       \/ M_QueryDetailsDone(i, o)

----------------------------------------------------------------------------
(* App (armaan.jsx)                                                        *)

\* a field of a context object that was not given; a template literal prints it so
Undef == "undefined"

A_warehouseColumns == {"WAREHOUSE_NAME", "QUERIES_1_10_SEC", "FAILED_QUERIES"}
A_userColumns == {"USER_NAME", "SPILLED_QUERIES"}
\* the columns declared clickable: true
A_clickable == {"QUERIES_1_10_SEC", "FAILED_QUERIES", "SPILLED_QUERIES"}

A_ServerUsers ==
  << [USER_NAME |-> "alice", SPILLED_QUERIES |-> NumV(2)],
     [USER_NAME |-> "bob", SPILLED_QUERIES |-> NumV(0)] >>

\* POST /warehouses/drill-down: response.data
A_DrillDownResponse(warehouse, kpi) ==
  << [warehouse_name |-> warehouse, selected_kpi_column |-> kpi,
      username |-> "alice", query_count |-> 2] >>

\* POST /users/drill-down: response.data
A_UserQueriesResponse(username, kpi) ==
  << [QUERY_ID |-> "q1", USER_NAME |-> username], [QUERY_ID |-> "q2", USER_NAME |-> username] >>

\* apiCall: besides a non-2xx response and a network failure, a body with
\* success false is thrown as an error
A_Outcomes == Outcomes \cup {"unsuccessful"}
A_failed(outcome) == outcome # "ok"

\* The loading overlay (fixed inset-0, z-40) lies over the page while loading,
\* and renderCurrentView shows the spinner instead of the view.
A_PageActive == a_page = "app" /\ ~a_loading

A_context(warehouse, kpi, user, fromView) ==
  [warehouse |-> warehouse, kpi |-> kpi, user |-> user, fromView |-> fromView]

\* navigate called with a view alone: context = {}
A_noContext == A_context(Undef, Undef, Undef, Undef)

A_crumb(title, view) == [title |-> title, view |-> view]

\* mutation of A_navigateBreadcrumbs: the query details are shown without an
\* entry of their own
A_navigateBreadcrumbsNoDetailEntry(view, context, prev) ==
  CASE view = "warehouses" -> << A_crumb(<<"Warehouses">>, "warehouses") >>
    [] view = "users" -> << A_crumb(<<"Users">>, "users") >>
    [] view = "warehouse-drill" ->
         << A_crumb(<<"Warehouses">>, "warehouses"),
            A_crumb(<<context.warehouse, " - ", context.kpi>>, "warehouse-drill") >>
    [] view = "user-queries" ->
         << A_crumb(IF context.fromView = "users" THEN <<"Users">> ELSE <<"Warehouses">>,
                    IF context.fromView # Undef THEN context.fromView ELSE "warehouses") >>
         \o (IF context.fromView # "users"
             THEN << A_crumb(<<context.warehouse, " - ", context.kpi>>, "warehouse-drill") >>
             ELSE << >>)
         \o << A_crumb(<<context.user, " Queries">>, "user-queries") >>
    [] OTHER -> prev

\* the breadcrumbs navigate(view, context) sets, prev being the current ones
A_navigateBreadcrumbs(view, context, prev) ==
  CASE view = "warehouses" -> << A_crumb(<<"Warehouses">>, "warehouses") >>
    [] view = "users" -> << A_crumb(<<"Users">>, "users") >>
    [] view = "warehouse-drill" ->
         << A_crumb(<<"Warehouses">>, "warehouses"),
            A_crumb(<<context.warehouse, " - ", context.kpi>>, "warehouse-drill") >>
    [] view = "user-queries" ->
         << A_crumb(IF context.fromView = "users" THEN <<"Users">> ELSE <<"Warehouses">>,
                    IF context.fromView # Undef THEN context.fromView ELSE "warehouses") >>
         \o (IF context.fromView # "users"
             THEN << A_crumb(<<context.warehouse, " - ", context.kpi>>, "warehouse-drill") >>
             ELSE << >>)
         \o << A_crumb(<<context.user, " Queries">>, "user-queries") >>
    [] view = "query-details" -> Append(prev, A_crumb(<<"Query Details">>, "query-details"))
    [] OTHER -> prev

\* navigate(view, context)
A_navigate(view, context) ==
  /\ a_currentView' = view
  /\ a_breadcrumbs' = A_navigateBreadcrumbs(view, context, a_breadcrumbs)

A_showToast(message, type) == a_toast' = [message |-> message, type |-> type]

\* an awaited apiCall of a handler, after setLoading(true)
A_call(kind, a, b) ==
  /\ CanIssue
  /\ a_loading' = TRUE
  /\ inflight' = Append(inflight, Req(kind, a, b, a_currentView))

\* View Users / View Warehouses / Back to Warehouses / Try Again: navigate(view)
A_NavButton(view) ==
  /\ A_Frame
  /\ A_PageActive
  /\ \/ a_currentView = "warehouses" /\ view = "users"
     \/ a_currentView \in {"users", "warehouse-drill"} /\ view = "warehouses"
  /\ A_navigate(view, A_noContext)
  /\ ev' = [op |-> "navButton", view |-> view]
  /\ UNCHANGED <<inflight, a_loading, a_toast, a_warehousesData, a_usersData, a_drillDownData,
                 a_queriesData, a_queryDetails, a_selectedWarehouse, a_selectedUser,
                 a_selectedKPI, a_page>>

\* a click on an entry of NavigationBreadcrumb: onNavigate(item.view)
A_BreadcrumbClick(idx) ==
  /\ A_Frame
  /\ A_PageActive
  /\ idx \in 1..Len(a_breadcrumbs)
  /\ a_breadcrumbs[idx].view = "query-details" => Len(a_breadcrumbs) < MaxBreadcrumbs
  /\ A_navigate(a_breadcrumbs[idx].view, A_noContext)
  /\ ev' = [op |-> "breadcrumbClick", idx |-> idx, view |-> a_breadcrumbs[idx].view]
  /\ UNCHANGED <<inflight, a_loading, a_toast, a_warehousesData, a_usersData, a_drillDownData,
                 a_queriesData, a_queryDetails, a_selectedWarehouse, a_selectedUser,
                 a_selectedKPI, a_page>>

\* The Back button of the query list and of the query details calls
\* window.history.back().  App pushes no history entry, so the browser either
\* has no earlier entry (nothing happens) or leaves the document.
A_HistoryBack(leaves) ==
  /\ A_Frame
  /\ A_PageActive
  /\ a_currentView \in {"user-queries", "query-details"}
  /\ a_page' = IF leaves THEN "left" ELSE a_page
  /\ ev' = [op |-> "historyBack", leaves |-> leaves]
  /\ UNCHANGED <<inflight, a_currentView, a_loading, a_toast, a_warehousesData, a_usersData,
                 a_drillDownData, a_queriesData, a_queryDetails, a_selectedWarehouse,
                 a_selectedUser, a_selectedKPI, a_breadcrumbs>>

\* DataTable's cell onClick: col.clickable && onCellClick && onCellClick(row, col)
A_cellPassed(key) == key \in A_clickable

\* handleWarehouseKPIClick up to its await
A_WarehouseKPIClick(r, key) ==
  LET row == a_warehousesData[r]
      issues == A_cellPassed(key) /\ key # "WAREHOUSE_NAME"
  IN /\ A_Frame
     /\ A_PageActive /\ a_currentView = "warehouses"
     /\ ev' = [op |-> "warehouseKPIClick", row |-> row, col |-> key,
               passed |-> A_cellPassed(key)]
     /\ IF issues
        THEN A_call("warehouseDrillDown", row.WAREHOUSE_NAME, key)
        ELSE UNCHANGED <<a_loading, inflight>>
     /\ UNCHANGED <<a_currentView, a_toast, a_warehousesData, a_usersData, a_drillDownData,
                    a_queriesData, a_queryDetails, a_selectedWarehouse, a_selectedUser,
                    a_selectedKPI, a_breadcrumbs, a_page>>

\* handleUserKPIClick up to its await
A_UserKPIClick(r, key) ==
  LET row == a_usersData[r]
      issues == A_cellPassed(key) /\ key # "USER_NAME"
  IN /\ A_Frame
     /\ A_PageActive /\ a_currentView = "users"
     /\ ev' = [op |-> "userKPIClick", row |-> row, col |-> key,
               passed |-> A_cellPassed(key)]
     /\ IF issues
        THEN A_call("userDrillDown", row.USER_NAME, key)
        ELSE UNCHANGED <<a_loading, inflight>>
     /\ UNCHANGED <<a_currentView, a_toast, a_warehousesData, a_usersData, a_drillDownData,
                    a_queriesData, a_queryDetails, a_selectedWarehouse, a_selectedUser,
                    a_selectedKPI, a_breadcrumbs, a_page>>

\* handleViewUserQueries (View All Queries of a drill-down row) up to its await
A_ViewUserQueries(r) ==
  /\ A_Frame
  /\ A_PageActive /\ a_currentView = "warehouse-drill"
  /\ r \in 1..Len(a_drillDownData)
  /\ A_call("viewUserQueries", a_drillDownData[r].username, a_selectedKPI)
  /\ ev' = [op |-> "viewUserQueries", username |-> a_drillDownData[r].username]
  /\ UNCHANGED <<a_currentView, a_toast, a_warehousesData, a_usersData, a_drillDownData,
                 a_queriesData, a_queryDetails, a_selectedWarehouse, a_selectedUser,
                 a_selectedKPI, a_breadcrumbs, a_page>>

\* handleViewQueryDetails (View Details of a query row) up to its await
A_ViewQueryDetails(r) ==
  /\ A_Frame
  /\ A_PageActive /\ a_currentView = "user-queries"
  /\ r \in 1..Len(a_queriesData)
  /\ Len(a_breadcrumbs) < MaxBreadcrumbs
  /\ A_call("queryDetails", a_queriesData[r].QUERY_ID, Null)
  /\ ev' = [op |-> "viewQueryDetails", queryId |-> a_queriesData[r].QUERY_ID]
  /\ UNCHANGED <<a_currentView, a_toast, a_warehousesData, a_usersData, a_drillDownData,
                 a_queriesData, a_queryDetails, a_selectedWarehouse, a_selectedUser,
                 a_selectedKPI, a_breadcrumbs, a_page>>

\* Toast's 4 s timer: closeToast
A_CloseToast ==
  /\ A_Frame
  /\ a_page = "app" /\ a_toast # NullV
  /\ a_toast' = NullV
  /\ ev' = [op |-> "closeToast"]
  /\ UNCHANGED <<inflight, a_currentView, a_loading, a_warehousesData, a_usersData,
                 a_drillDownData, a_queriesData, a_queryDetails, a_selectedWarehouse,
                 a_selectedUser, a_selectedKPI, a_breadcrumbs, a_page>>

\* a handler resumes after its await; its finally clause clears loading
A_Respond(i, kind, outcome) ==
  /\ a_page = "app"
  /\ i \in 1..Len(inflight) /\ inflight[i].kind = kind
  /\ inflight' = RemoveAt(inflight, i)
  /\ a_loading' = FALSE
  /\ ev' = [op |-> "response", kind |-> kind, outcome |-> outcome, req |-> inflight[i]]

\* Promise.all of two promises: fulfilled when both are, rejected with the
\* reason of the one that rejects first (either one, when both reject)
PromiseAll(first, second) ==
  IF first = "ok" /\ second = "ok" THEN {"ok"} ELSE {first, second} \ {"ok"}

\* loadInitialData that stores each dataset whose own request succeeded
A_LoadInitialDataDoneEachAlone(i, warehousesRes, usersRes) ==
  /\ A_Frame
  /\ a_page = "app"
  /\ i \in 1..Len(inflight) /\ inflight[i].kind = "loadInitialData"
  /\ inflight' = RemoveAt(inflight, i)
  /\ a_loading' = FALSE
  /\ \E outcome \in PromiseAll(warehousesRes, usersRes) :
       /\ ev' = [op |-> "response", kind |-> "loadInitialData", outcome |-> outcome,
                 req |-> inflight[i], settled |-> <<warehousesRes, usersRes>>]
       /\ a_warehousesData' = IF warehousesRes = "ok" THEN ServerWarehouses ELSE a_warehousesData
       /\ a_usersData' = IF usersRes = "ok" THEN A_ServerUsers ELSE a_usersData
       /\ IF A_failed(outcome)
          THEN A_showToast(<<"Failed to load data: ", outcome>>, "error")
          ELSE A_showToast(<<"Data loaded successfully">>, "success")
  /\ UNCHANGED <<a_currentView, a_drillDownData, a_queriesData, a_queryDetails,
                 a_selectedWarehouse, a_selectedUser, a_selectedKPI, a_breadcrumbs, a_page>>

\* loadInitialData after its await of Promise.all of both apiCalls, of which
\* the one of /warehouses settled as warehousesRes and the one of /users as
\* usersRes
A_LoadInitialDataDone(i, warehousesRes, usersRes) ==
  /\ A_Frame
  /\ a_page = "app"
  /\ i \in 1..Len(inflight) /\ inflight[i].kind = "loadInitialData"
  /\ inflight' = RemoveAt(inflight, i)
  /\ a_loading' = FALSE
  /\ \E outcome \in PromiseAll(warehousesRes, usersRes) :
       /\ ev' = [op |-> "response", kind |-> "loadInitialData", outcome |-> outcome,
                 req |-> inflight[i], settled |-> <<warehousesRes, usersRes>>]
       /\ IF A_failed(outcome)
          THEN /\ A_showToast(<<"Failed to load data: ", outcome>>, "error")
               /\ UNCHANGED <<a_warehousesData, a_usersData>>
          ELSE /\ a_warehousesData' = ServerWarehouses
               /\ a_usersData' = A_ServerUsers
               /\ A_showToast(<<"Data loaded successfully">>, "success")
  /\ UNCHANGED <<a_currentView, a_drillDownData, a_queriesData, a_queryDetails,
                 a_selectedWarehouse, a_selectedUser, a_selectedKPI, a_breadcrumbs, a_page>>

\* handleWarehouseKPIClick after its await
A_WarehouseDrillDownDone(i, outcome) ==
  LET warehouse == inflight[i].a
      kpi == inflight[i].b
  IN /\ A_Frame
     /\ A_Respond(i, "warehouseDrillDown", outcome)
     /\ IF A_failed(outcome)
        THEN /\ A_showToast(<<"Failed to load drill-down data: ", outcome>>, "error")
             /\ UNCHANGED <<a_drillDownData, a_selectedWarehouse, a_selectedKPI,
                            a_currentView, a_breadcrumbs>>
        ELSE /\ a_drillDownData' = A_DrillDownResponse(warehouse, kpi)
             /\ a_selectedWarehouse' = warehouse
             /\ a_selectedKPI' = kpi
             /\ A_navigate("warehouse-drill", A_context(warehouse, kpi, Undef, Undef))
             /\ A_showToast(<<"Found queries">>, "success")
     /\ UNCHANGED <<a_warehousesData, a_usersData, a_queriesData, a_queryDetails,
                    a_selectedUser, a_page>>

\* handleUserKPIClick after its await
A_UserDrillDownDone(i, outcome) ==
  LET user == inflight[i].a
      kpi == inflight[i].b
  IN /\ A_Frame
     /\ A_Respond(i, "userDrillDown", outcome)
     /\ IF A_failed(outcome)
        THEN /\ A_showToast(<<"Failed to load user queries: ", outcome>>, "error")
             /\ UNCHANGED <<a_queriesData, a_selectedUser, a_selectedKPI,
                            a_currentView, a_breadcrumbs>>
        ELSE /\ a_queriesData' = A_UserQueriesResponse(user, kpi)
             /\ a_selectedUser' = user
             /\ a_selectedKPI' = kpi
             /\ A_navigate("user-queries", A_context(Undef, kpi, user, "users"))
             /\ A_showToast(<<"Found queries">>, "success")
     /\ UNCHANGED <<a_warehousesData, a_usersData, a_drillDownData, a_queryDetails,
                    a_selectedWarehouse, a_page>>

\* handleViewUserQueries after its await
A_ViewUserQueriesDone(i, outcome) ==
  LET username == inflight[i].a
  IN /\ A_Frame
     /\ A_Respond(i, "viewUserQueries", outcome)
     /\ IF A_failed(outcome)
        THEN /\ A_showToast(<<"Failed to load user queries: ", outcome>>, "error")
             /\ UNCHANGED <<a_queriesData, a_selectedUser, a_currentView, a_breadcrumbs>>
        ELSE /\ a_queriesData' = A_UserQueriesResponse(username, inflight[i].b)
             /\ a_selectedUser' = username
             /\ A_navigate("user-queries",
                           A_context(a_selectedWarehouse, a_selectedKPI, username,
                                     "warehouse-drill"))
             /\ A_showToast(<<"Found queries for ", username>>, "success")
     /\ UNCHANGED <<a_warehousesData, a_usersData, a_drillDownData, a_queryDetails,
                    a_selectedWarehouse, a_selectedKPI, a_page>>

\* handleViewQueryDetails after its await
A_QueryDetailsDone(i, outcome) ==
  /\ A_Frame
  /\ A_Respond(i, "queryDetails", outcome)
  /\ IF A_failed(outcome)
     THEN /\ A_showToast(<<"Failed to load query details: ", outcome>>, "error")
          /\ UNCHANGED <<a_queryDetails, a_currentView, a_breadcrumbs>>
     ELSE /\ a_queryDetails' = QueryDetailsResponse(inflight[i].a)
          /\ A_navigate("query-details", A_noContext)
          /\ A_showToast(<<"Query details loaded">>, "success")
  /\ UNCHANGED <<a_warehousesData, a_usersData, a_drillDownData, a_queriesData,
                 a_selectedWarehouse, a_selectedUser, a_selectedKPI, a_page>>

\* App after its first render and mount effect: loadInitialData is awaited
InitApp ==
  /\ a_currentView = "warehouses"
  /\ a_loading = TRUE
  /\ a_toast = NullV
  /\ a_warehousesData = <<>>
  /\ a_usersData = <<>>
  /\ a_drillDownData = <<>>
  /\ a_queriesData = <<>>
  /\ a_queryDetails = NullV
  /\ a_selectedWarehouse = Null
  /\ a_selectedUser = Null
  /\ a_selectedKPI = Null
  /\ a_breadcrumbs = << A_crumb(<<"Warehouses">>, "warehouses") >>
  /\ a_page = "app"

NextApp ==
  \/ \E view \in {"warehouses", "users"} : A_NavButton(view)
  \/ \E idx \in 1..Len(a_breadcrumbs) : A_BreadcrumbClick(idx)
  \/ \E leaves \in BOOLEAN : A_HistoryBack(leaves)
  \/ \E r \in 1..Len(a_warehousesData), key \in A_warehouseColumns : A_WarehouseKPIClick(r, key)
  \/ \E r \in 1..Len(a_usersData), key \in A_userColumns : A_UserKPIClick(r, key)
  \/ \E r \in 1..Len(a_drillDownData) : A_ViewUserQueries(r)
  \/ \E r \in 1..Len(a_queriesData) : A_ViewQueryDetails(r)
  \/ A_CloseToast
  \/ \E i \in 1..Len(inflight), o \in A_Outcomes :
       \/ \E usersRes \in A_Outcomes : A_LoadInitialDataDone(i, o, usersRes)
       \/ A_WarehouseDrillDownDone(i, o)
       \/ A_UserDrillDownDone(i, o)
       \/ A_ViewUserQueriesDone(i, o)
       \/ A_QueryDetailsDone(i, o)

----------------------------------------------------------------------------
(* AnalyticsDashboard (finops.jsx)                                         *)

F_tabs == {"overview", "queries", "warehouses", "users", "details"}
F_endpoints ==
  {"queryHistory", "queryDetails", "warehouseAnalytics", "userPerformance", "accountSummary"}

\* useState({}): no dataset loaded yet
EmptyObj == [t |-> "empty"]

\* the body of a non-2xx response
ErrorBody == [t |-> "error"]

F_ServerData(endpoint) ==
  CASE endpoint = "queryHistory" -> << [QUERY_ID |-> "q1"], [QUERY_ID |-> "q2"] >>
    [] endpoint = "queryDetails" -> << [QUERY_ID |-> "q1"] >>
    [] endpoint = "warehouseAnalytics" -> ServerWarehouses
    [] endpoint = "userPerformance" ->
         << [user_name |-> "alice", flag_type |-> "slow_query", count |-> 2],
            [user_name |-> "bob", flag_type |-> "slow_query", count |-> 0] >>
    [] endpoint = "accountSummary" -> << [TOTAL_QUERIES |-> 2] >>

\* fetchData: the parsed body, or [] when the fetch fails or is not 2xx
F_fetchData(endpoint, failed) == IF endpoint \in failed THEN <<>> ELSE F_ServerData(endpoint)

\* the sets of endpoints that fail in one refreshData
F_FailSets == {{}, {"warehouseAnalytics"}, {"queryHistory", "userPerformance"}, F_endpoints}

\* data.<name> || []
F_dataset(name) == IF f_data = EmptyObj THEN <<>> ELSE f_data[name]

\* the query types of the three drill-down buttons of a warehouse row (two modelled)
F_queryTypes == {"1-10_sec", "spilled_local"}
F_flagTypes == {"slow_query"}

\* POST /warehouse-drill-down, 2xx
F_WarehouseDrillDownResponse(warehouseName, queryType) ==
  [warehouse_name |-> warehouseName,
   users |-> << [user_name |-> "alice", query_count |-> 2, query_ids |-> <<"q1", "q2">>] >>]

\* POST /user-drill-down, 2xx
F_UserDrillDownResponse(userName, flagType) ==
  [user_name |-> userName, queries |-> << [query_id |-> "q1"], [query_id |-> "q2"] >>]

\* await response.json() of the handlers, which do not look at response.ok:
\* the body of a 2xx response, or the body of a non-2xx one
F_result(outcome, body) == IF outcome = "ok" THEN body ELSE ErrorBody

\* a handler's try block runs to its end unless fetch or json() rejects
F_resolved(outcome) == outcome \in {"ok", "status"}

\* DrillDownView hands drillDownData.data.users (or .queries) to InteractiveTable,
\* whose paginatedData calls slice on it: an error body has neither, the render
\* throws, and React unmounts the component.
F_RenderThrows ==
  /\ ~f_loading
  /\ f_drillDownData # NullV
  /\ f_drillDownData.data = ErrorBody
  /\ \/ f_activeTab = "warehouses" /\ f_drillDownData.type = "warehouse"
     \/ f_activeTab = "users" /\ f_drillDownData.type = "user"

F_Mounted == ~F_RenderThrows

\* if (loading) return <LoadingSpinner />; the modal (fixed inset-0, z-50) lies
\* over the page while selectedQuery is set
F_ModalShown == F_Mounted /\ ~f_loading /\ f_selectedQuery # NullV
F_PageActive == F_Mounted /\ ~f_loading /\ f_selectedQuery = NullV

\* the drill-down view of the active tab is shown instead of its table
F_DrillShown(type) ==
  /\ f_drillDownData # NullV /\ f_drillDownData.type = type
  /\ f_activeTab = (IF type = "warehouse" THEN "warehouses" ELSE "users")

\* a handler up to its await: setLoading(true), then the fetch
F_call(kind, a, b) ==
  /\ f_loading' = TRUE
  /\ inflight' = Append(inflight, Req(kind, a, b, f_activeTab))

\* Refresh Data
F_Refresh ==
  /\ F_Frame
  /\ F_PageActive /\ CanIssue
  /\ F_call("refreshData", Null, Null)
  /\ ev' = [op |-> "refresh"]
  /\ UNCHANGED <<f_activeTab, f_data, f_drillDownData, f_selectedQuery>>

\* a navigation tab
F_Tab(id) ==
  /\ F_Frame
  /\ F_PageActive
  /\ f_activeTab' = id
  /\ f_drillDownData' = NullV
  /\ ev' = [op |-> "tab", id |-> id]
  /\ UNCHANGED <<inflight, f_loading, f_data, f_selectedQuery>>

\* The Details button of a Query History row: its own onClick calls
\* handleQueryDetails, and the click bubbles to the row, whose onRowClick calls
\* it again.
F_HistoryDetailsButton(r) ==
  LET id == F_dataset("queryHistory")[r].QUERY_ID
  IN /\ F_Frame
     /\ F_PageActive /\ f_activeTab = "queries"
     /\ Len(inflight) + 1 < MaxInFlight
     /\ f_loading' = TRUE
     /\ inflight' = inflight \o << Req("queryDetails", id, Null, f_activeTab),
                                   Req("queryDetails", id, Null, f_activeTab) >>
     /\ ev' = [op |-> "historyDetailsButton", queryId |-> id]
     /\ UNCHANGED <<f_activeTab, f_data, f_drillDownData, f_selectedQuery>>

\* a click on a Query History row outside its button: onRowClick
F_HistoryRowClick(r) ==
  LET id == F_dataset("queryHistory")[r].QUERY_ID
  IN /\ F_Frame
     /\ F_PageActive /\ f_activeTab = "queries" /\ CanIssue
     /\ F_call("queryDetails", id, Null)
     /\ ev' = [op |-> "historyRowClick", queryId |-> id]
     /\ UNCHANGED <<f_activeTab, f_data, f_drillDownData, f_selectedQuery>>

\* Full Details of a Complete Query Details row
F_FullDetailsButton(r) ==
  LET id == F_dataset("queryDetails")[r].QUERY_ID
  IN /\ F_Frame
     /\ F_PageActive /\ f_activeTab = "details" /\ CanIssue
     /\ F_call("queryDetails", id, Null)
     /\ ev' = [op |-> "fullDetailsButton", queryId |-> id]
     /\ UNCHANGED <<f_activeTab, f_data, f_drillDownData, f_selectedQuery>>

\* a count button of a warehouse row: handleWarehouseDrillDown(row, queryType)
F_WarehouseDrillDown(r, queryType) ==
  LET warehouse == F_dataset("warehouseAnalytics")[r]
  IN /\ F_Frame
     /\ F_PageActive /\ f_activeTab = "warehouses" /\ ~F_DrillShown("warehouse") /\ CanIssue
     /\ F_call("warehouseDrillDown", warehouse, queryType)
     /\ ev' = [op |-> "warehouseDrillDown", warehouse |-> warehouse, queryType |-> queryType]
     /\ UNCHANGED <<f_activeTab, f_data, f_drillDownData, f_selectedQuery>>

\* a count button of a user row, rendered only for a count > 0:
\* handleUserDrillDown(row, flagType)
F_UserDrillDown(r, flagType) ==
  LET row == F_dataset("userPerformance")[r]
  IN /\ F_Frame
     /\ F_PageActive /\ f_activeTab = "users" /\ ~F_DrillShown("user") /\ CanIssue
     /\ row.flag_type = flagType /\ row.count > 0
     /\ F_call("userDrillDown", row.user_name, flagType)
     /\ ev' = [op |-> "userDrillDown", user |-> row.user_name, flagType |-> flagType]
     /\ UNCHANGED <<f_activeTab, f_data, f_drillDownData, f_selectedQuery>>

\* View Queries of a warehouse drill-down row: handleQueryDetails(row.query_ids[0])
F_DrillViewQueries(r) ==
  LET row == f_drillDownData.data.users[r]
      id == IF Len(row.query_ids) > 0 THEN row.query_ids[1] ELSE Undef
  IN /\ F_Frame
     /\ F_PageActive /\ F_DrillShown("warehouse") /\ CanIssue
     /\ r \in 1..Len(f_drillDownData.data.users)
     /\ F_call("queryDetails", id, Null)
     /\ ev' = [op |-> "drillViewQueries", queryId |-> id]
     /\ UNCHANGED <<f_activeTab, f_data, f_drillDownData, f_selectedQuery>>

\* View Details of a user drill-down row: handleQueryDetails(row.query_id)
F_DrillViewDetails(r) ==
  LET row == f_drillDownData.data.queries[r]
  IN /\ F_Frame
     /\ F_PageActive /\ F_DrillShown("user") /\ CanIssue
     /\ r \in 1..Len(f_drillDownData.data.queries)
     /\ F_call("queryDetails", row.query_id, Null)
     /\ ev' = [op |-> "drillViewDetails", queryId |-> row.query_id]
     /\ UNCHANGED <<f_activeTab, f_data, f_drillDownData, f_selectedQuery>>

\* DrillDownView.handleBack
F_DrillBack ==
  /\ F_Frame
  /\ F_PageActive /\ (F_DrillShown("warehouse") \/ F_DrillShown("user"))
  /\ f_drillDownData' = NullV
  /\ ev' = [op |-> "drillBack"]
  /\ UNCHANGED <<inflight, f_activeTab, f_loading, f_data, f_selectedQuery>>

\* the x button of QueryDetailsModal
F_ModalClose ==
  /\ F_Frame
  /\ F_ModalShown
  /\ f_selectedQuery' = NullV
  /\ inflight' = MarkClosed(inflight, "queryDetails")
  /\ ev' = [op |-> "modalClose"]
  /\ UNCHANGED <<f_activeTab, f_loading, f_data, f_drillDownData>>

\* a handler resumes after its await; its finally clause clears loading
F_Respond(i, kind, outcome) ==
  /\ F_Mounted
  /\ i \in 1..Len(inflight) /\ inflight[i].kind = kind
  /\ inflight' = RemoveAt(inflight, i)
  /\ f_loading' = FALSE
  /\ ev' = [op |-> "response", kind |-> kind, outcome |-> outcome, req |-> inflight[i]]

\* refreshData after Promise.all of its five fetchData calls
F_RefreshDone(i, failed) ==
  /\ F_Frame
  /\ F_Respond(i, "refreshData", failed)
  /\ f_data' = [e \in F_endpoints |-> F_fetchData(e, failed)]
  /\ UNCHANGED <<f_activeTab, f_drillDownData, f_selectedQuery>>

\* handleWarehouseDrillDown after its awaits
F_WarehouseDrillDownDone(i, outcome) ==
  LET warehouse == inflight[i].a
      queryType == inflight[i].b
  IN /\ F_Frame
     /\ F_Respond(i, "warehouseDrillDown", outcome)
     /\ IF F_resolved(outcome)
        THEN f_drillDownData' =
               [type |-> "warehouse",
                data |-> F_result(outcome,
                            F_WarehouseDrillDownResponse(warehouse.WAREHOUSE_NAME, queryType)),
                key |-> warehouse, dimension |-> queryType]
        ELSE UNCHANGED f_drillDownData
     /\ UNCHANGED <<f_activeTab, f_data, f_selectedQuery>>

\* handleUserDrillDown after its awaits
F_UserDrillDownDone(i, outcome) ==
  LET user == inflight[i].a
      flagType == inflight[i].b
  IN /\ F_Frame
     /\ F_Respond(i, "userDrillDown", outcome)
     /\ IF F_resolved(outcome)
        THEN f_drillDownData' =
               [type |-> "user",
                data |-> F_result(outcome, F_UserDrillDownResponse(user, flagType)),
                key |-> user, dimension |-> flagType]
        ELSE UNCHANGED f_drillDownData
     /\ UNCHANGED <<f_activeTab, f_data, f_selectedQuery>>

\* handleQueryDetails after its awaits
F_QueryDetailsDone(i, outcome) ==
  /\ F_Frame
  /\ F_Respond(i, "queryDetails", outcome)
  /\ IF F_resolved(outcome)
     THEN f_selectedQuery' = F_result(outcome, QueryDetailsResponse(inflight[i].a))
     ELSE UNCHANGED f_selectedQuery
  /\ UNCHANGED <<f_activeTab, f_data, f_drillDownData>>

\* AnalyticsDashboard after its first render and mount effect: refreshData is awaited
InitFinops ==
  /\ f_activeTab = "overview"
  /\ f_loading = TRUE
  /\ f_data = EmptyObj
  /\ f_drillDownData = NullV
  /\ f_selectedQuery = NullV

NextFinops ==
  \/ F_Refresh
  \/ \E id \in F_tabs : F_Tab(id)
  \/ \E r \in 1..Len(F_dataset("queryHistory")) : F_HistoryDetailsButton(r)
  \/ \E r \in 1..Len(F_dataset("queryHistory")) : F_HistoryRowClick(r)
  \/ \E r \in 1..Len(F_dataset("queryDetails")) : F_FullDetailsButton(r)
  \/ \E r \in 1..Len(F_dataset("warehouseAnalytics")), q \in F_queryTypes :
       F_WarehouseDrillDown(r, q)
  \/ \E r \in 1..Len(F_dataset("userPerformance")), fl \in F_flagTypes : F_UserDrillDown(r, fl)
  \/ \E r \in 1..2 : F_DrillViewQueries(r)
  \/ \E r \in 1..2 : F_DrillViewDetails(r)
  \/ F_DrillBack
  \/ F_ModalClose
  \/ \E i \in 1..Len(inflight) :
       \/ \E failed \in F_FailSets : F_RefreshDone(i, failed)
       \/ \E o \in Outcomes :
            \/ F_WarehouseDrillDownDone(i, o)
            \/ F_UserDrillDownDone(i, o)
            \/ F_QueryDetailsDone(i, o)

----------------------------------------------------------------------------
(* The table components: DataTable (armaannew.jsx:58-264), InteractiveTable *)
(* (finops.jsx:55-203) and DataTable (armaan.jsx:47-159).  A string is the  *)
(* sequence of its characters; a record is a function from its field names  *)
(* to cell values, and the record with no fields is the empty function.     *)

\* the characters of the model in code-unit order: line feed, quote, comma,
\* the digits, the upper-case and the lower-case letters
Chars ==
  << "\n", "\"", ",",
     "0", "1", "2", "3", "4", "5", "6", "7", "8", "9",
     "A", "B", "C", "D", "E", "F", "G", "H", "I", "J", "K", "L", "M",
     "N", "O", "P", "Q", "R", "S", "T", "U", "V", "W", "X", "Y", "Z",
     "a", "b", "c", "d", "e", "f", "g", "h", "i", "j", "k", "l", "m",
     "n", "o", "p", "q", "r", "s", "t", "u", "v", "w", "x", "y", "z" >>

Code(c) == CHOOSE i \in 1..Len(Chars) : Chars[i] = c
IsDigit(c) == Code(c) \in 4..13
IsUpper(c) == Code(c) \in 14..39

\* a string cell value
Str(s) == [t |-> "str", v |-> s]

\* String.prototype.toLowerCase
toLowerCase(s) == [i \in 1..Len(s) |-> IF IsUpper(s[i]) THEN Chars[Code(s[i]) + 26] ELSE s[i]]

\* String.prototype.includes
includes(s, sub) ==
  \E i \in 0..(Len(s) - Len(sub)) : SubSeq(s, i + 1, i + Len(sub)) = sub

\* the decimal digits of a natural number
RECURSIVE Digits(_)
Digits(n) == IF n < 10 THEN << Chars[4 + n] >> ELSE Append(Digits(n \div 10), Chars[4 + (n % 10)])

\* String(value)
JS_String(value) ==
  CASE value.t = "str" -> value.v
    [] value.t = "num" -> Digits(value.v)
    [] value.t = "null" -> << "n", "u", "l", "l" >>
    [] value.t = "undefined" -> << "u", "n", "d", "e", "f", "i", "n", "e", "d" >>

\* JavaScript truthiness of a cell value that may be a string
JS_Truthy(value) == value \notin {NullV, UndefV, NumV(0), Str(<< >>)}

NaN == [t |-> "NaN"]

RECURSIVE ParseDigits(_)
ParseDigits(s) ==
  IF s = << >> THEN 0 ELSE 10 * ParseDigits(SubSeq(s, 1, Len(s) - 1)) + (Code(s[Len(s)]) - 4)

\* a string without its leading and trailing line breaks
RECURSIVE Trim(_)
Trim(s) ==
  IF s = << >> THEN s
  ELSE IF s[1] = "\n" THEN Trim(Tail(s))
  ELSE IF s[Len(s)] = "\n" THEN Trim(SubSeq(s, 1, Len(s) - 1))
  ELSE s

\* ToNumber, the conversion the relational operators apply to operands that
\* are not both strings
ToNumber(value) ==
  CASE value.t = "num" -> value
    [] value.t = "null" -> NumV(0)
    [] value.t = "undefined" -> NaN
    [] value.t = "str" ->
         IF \A i \in 1..Len(Trim(value.v)) : IsDigit(Trim(value.v)[i])
         THEN NumV(ParseDigits(Trim(value.v))) ELSE NaN

\* s < t for strings: by code units
RECURSIVE StrLT(_, _)
StrLT(s, t) ==
  IF t = << >> THEN FALSE
  ELSE IF s = << >> THEN TRUE
  ELSE IF s[1] = t[1] THEN StrLT(Tail(s), Tail(t))
  ELSE Code(s[1]) < Code(t[1])

\* a < b and a > b of JavaScript: strings by code units, anything else as
\* numbers, and false when either number is NaN
JS_LT(a, b) ==
  IF a.t = "str" /\ b.t = "str" THEN StrLT(a.v, b.v)
  ELSE /\ ToNumber(a) # NaN
       /\ ToNumber(b) # NaN
       /\ ToNumber(a).v < ToNumber(b).v
JS_GT(a, b) == JS_LT(b, a)

\* row[key]: the field, or undefined when the record has no such field
Get(row, key) == IF key \in DOMAIN row THEN row[key] ELSE UndefV

\* the three table components, named by the component that renders them
DashboardTable == "Dashboard.DataTable"
FinopsTable == "AnalyticsDashboard.InteractiveTable"
AppTable == "App.DataTable"
Tables == {DashboardTable, FinopsTable, AppTable}
\* armaan.jsx's table shows every row; the other two show one page
Paginated == {DashboardTable, FinopsTable}

D_itemsPerPage == 50
F_itemsPerPage == 10
itemsPerPage(table) == IF table = FinopsTable THEN F_itemsPerPage ELSE D_itemsPerPage

\* Object.values(row).some(value => String(value).toLowerCase().includes(
\* searchTerm.toLowerCase()))
RowMatches(row, searchTerm) ==
  \E k \in DOMAIN row :
     includes(toLowerCase(JS_String(row[k])), toLowerCase(searchTerm))

\* a filter that compares the cells with the search term as typed
D_filteredDataCaseSensitive(data, searchTerm) ==
  IF searchTerm = << >> THEN data
  ELSE SelectSeq(data, LAMBDA row :
         \E k \in DOMAIN row : includes(JS_String(row[k]), searchTerm))

D_filteredData(data, searchTerm) ==
  IF searchTerm = << >> THEN data
  ELSE SelectSeq(data, LAMBDA row : RowMatches(row, searchTerm))

F_filteredData(data, searchTerm) ==
  IF searchTerm = << >> THEN data
  ELSE SelectSeq(data, LAMBDA row : RowMatches(row, searchTerm))

\* searchable is left at its default, true, by every use of the table
A_filteredData(data, searchTerm) ==
  SelectSeq(data, LAMBDA row : RowMatches(row, searchTerm))

filteredData(table, data, searchTerm) ==
  CASE table = DashboardTable -> D_filteredData(data, searchTerm)
    [] table = FinopsTable -> F_filteredData(data, searchTerm)
    [] table = AppTable -> A_filteredData(data, searchTerm)

\* a comparator that orders ascending whatever the direction
D_compareIgnoringDirection(a, b, sortConfig) ==
  LET aValue == Get(a, sortConfig.key)
      bValue == Get(b, sortConfig.key)
  IN IF aValue = bValue THEN 0 ELSE IF JS_LT(aValue, bValue) THEN -1 ELSE 1

\* the comparators handed to Array.prototype.sort
D_compare(a, b, sortConfig) ==
  LET aValue == Get(a, sortConfig.key)
      bValue == Get(b, sortConfig.key)
      comparison == IF JS_LT(aValue, bValue) THEN -1 ELSE 1
  IN IF aValue = bValue THEN 0
     ELSE IF sortConfig.direction = "desc" THEN -comparison ELSE comparison

F_compare(a, b, sortConfig) ==
  LET aVal == Get(a, sortConfig.key)
      bVal == Get(b, sortConfig.key)
      asc == sortConfig.direction = "asc"
      aStr == Str(toLowerCase(JS_String(aVal)))
      bStr == Str(toLowerCase(JS_String(bVal)))
  IN IF aVal \in {NullV, UndefV} THEN 1
     ELSE IF bVal \in {NullV, UndefV} THEN -1
     ELSE IF aVal.t = "num" /\ bVal.t = "num"
          THEN (IF asc THEN aVal.v - bVal.v ELSE bVal.v - aVal.v)
     ELSE IF JS_LT(aStr, bStr) THEN (IF asc THEN -1 ELSE 1)
     ELSE IF JS_GT(aStr, bStr) THEN (IF asc THEN 1 ELSE -1)
     ELSE 0

A_compare(a, b, sortConfig) ==
  LET asc == sortConfig.direction = "asc"
  IN IF JS_LT(Get(a, sortConfig.key), Get(b, sortConfig.key)) THEN (IF asc THEN -1 ELSE 1)
     ELSE IF JS_GT(Get(a, sortConfig.key), Get(b, sortConfig.key)) THEN (IF asc THEN 1 ELSE -1)
     ELSE 0

compare(table, a, b, sortConfig) ==
  CASE table = DashboardTable -> D_compare(a, b, sortConfig)
    [] table = FinopsTable -> F_compare(a, b, sortConfig)
    [] table = AppTable -> A_compare(a, b, sortConfig)

\* Array.prototype.sort: a stable sort, computed by insertion; x is moved in
\* front of the elements at the end of s that the comparator puts after it,
\* up to the last element it does not
Insert(s, x, table, sortConfig) ==
  LET stay == {j \in 1..Len(s) : compare(table, s[j], x, sortConfig) <= 0}
      last == IF stay = {} THEN 0 ELSE CHOOSE j \in stay : \A k \in stay : k <= j
  IN SubSeq(s, 1, last) \o << x >> \o SubSeq(s, last + 1, Len(s))

\* sorted holds the first Len(sorted) elements of s in order; the rest follow
RECURSIVE SortRest(_, _, _, _)
SortRest(sorted, s, table, sortConfig) ==
  IF Len(sorted) = Len(s) THEN sorted
  ELSE SortRest(Insert(sorted, s[Len(sorted) + 1], table, sortConfig), s, table, sortConfig)

ArraySort(s, table, sortConfig) == SortRest(<< >>, s, table, sortConfig)

sortedData(table, data, searchTerm, sortConfig) ==
  IF sortConfig.key = Null THEN filteredData(table, data, searchTerm)
  ELSE ArraySort(filteredData(table, data, searchTerm), table, sortConfig)

\* Array.prototype.slice(start, end)
Slice(s, start, end) ==
  IF start >= Len(s) THEN << >>
  ELSE SubSeq(s, start + 1, IF end < Len(s) THEN end ELSE Len(s))

paginatedData(table, data, searchTerm, sortConfig, currentPage) ==
  LET startIndex == (currentPage - 1) * itemsPerPage(table)
  IN Slice(sortedData(table, data, searchTerm, sortConfig),
           startIndex, startIndex + itemsPerPage(table))

\* Math.ceil(sortedData.length / itemsPerPage)
totalPages(table, data, searchTerm, sortConfig) ==
  (Len(sortedData(table, data, searchTerm, sortConfig)) + itemsPerPage(table) - 1)
     \div itemsPerPage(table)

\* the rows the table shows: one page, or in armaan.jsx all of sortedData
visibleRows(table, data, searchTerm, sortConfig, currentPage) ==
  IF table \in Paginated
  THEN paginatedData(table, data, searchTerm, sortConfig, currentPage)
  ELSE sortedData(table, data, searchTerm, sortConfig)

\* useState's initial values
defaultSortConfig == [key |-> Null, direction |-> "asc"]

\* the columns prop; a key is a one-character field name, so the text of a
\* key is the one-element string << key >>
T_columns ==
  << [key |-> "n", label |-> << "N", "a", "m", "e" >>],
     [key |-> "q", label |-> << "Q", "t", "y" >>] >>

\* Array.prototype.join, one half of the array after the other
RECURSIVE Join(_, _)
Join(strings, sep) ==
  IF strings = << >> THEN << >>
  ELSE IF Len(strings) = 1 THEN strings[1]
  ELSE Join(SubSeq(strings, 1, Len(strings) \div 2), sep) \o sep
       \o Join(SubSeq(strings, Len(strings) \div 2 + 1, Len(strings)), sep)

\* `"${row[col.key] || ''}"`
D_csvCell(value) ==
  << "\"" >> \o (IF JS_Truthy(value) THEN JS_String(value) ELSE << >>) \o << "\"" >>

\* the text exportToCSV puts in the downloaded file
D_exportToCSV(columns, sorted) ==
  Join(<< Join([c \in 1..Len(columns) |-> << columns[c].key >>], << "," >>) >>
       \o [r \in 1..Len(sorted) |->
             Join([c \in 1..Len(columns) |-> D_csvCell(Get(sorted[r], columns[c].key))],
                  << "," >>)],
       << "\n" >>)

\* the datasets a table is given: none; rows with a null, equal keys and
\* names that differ in letter case only; rows with a record without fields, a missing field, equal keys and
\* quote, comma and line break in a cell; and one row more than a page holds,
\* with zeros among its cells
NoRows == << >>
MixedRows ==
  << [n |-> Str(<< "B", "o", "b" >>), q |-> NumV(5)],
     [n |-> Str(<< "a", "l" >>), q |-> NullV],
     [n |-> Str(<< "C", "y" >>), q |-> NumV(3)],
     [n |-> Str(<< "A", "L" >>), q |-> NumV(5)] >>
OddRows ==
  << << >>,
     [n |-> Str(<< "a", ",", "b" >>), q |-> NumV(2)],
     [n |-> Str(<< "x", "\"", "y" >>), q |-> NumV(2)],
     [n |-> Str(<< "u", "\n", "v" >>)] >>
PagedRows(table) ==
  [i \in 1..(itemsPerPage(table) + 1) |-> [n |-> Str(Digits(i)), q |-> NumV(i % 3)]]
Datasets(table) == {NoRows, MixedRows, OddRows, PagedRows(table)}

\* what the user may type into the search box
SearchTerms ==
  { << >>, << "b" >>, << "B" >>, << "5" >>, << "n", "u", "l", "l" >>, << "z" >> }

T_Frame == prog \in Tables /\ UNCHANGED <<prog, inflight, dvars, mvars, avars, fvars>>

T_sorted == sortedData(prog, t_data, t_searchTerm, t_sortConfig)
T_totalPages == totalPages(prog, t_data, t_searchTerm, t_sortConfig)
T_visible == visibleRows(prog, t_data, t_searchTerm, t_sortConfig, t_currentPage)

\* armaan.jsx's table renders only "No data available" for an empty dataset
T_Rendered == prog = AppTable => t_data # << >>

\* the search box: onChange={(e) => setSearchTerm(e.target.value)}
T_setSearchTerm(value) ==
  /\ T_Frame
  /\ T_Rendered
  /\ value # t_searchTerm
  /\ t_searchTerm' = value
  /\ ev' = [op |-> "setSearchTerm"]
  /\ UNCHANGED <<t_data, t_sortConfig, t_currentPage>>

\* a header click under a three-state cycle: ascending, descending, unsorted
T_handleSortThreeState(key) ==
  /\ T_Frame
  /\ T_Rendered
  /\ t_sortConfig' =
       IF t_sortConfig.key = key /\ t_sortConfig.direction = "asc"
       THEN [key |-> key, direction |-> "desc"]
       ELSE IF t_sortConfig.key = key THEN defaultSortConfig
       ELSE [key |-> key, direction |-> "asc"]
  /\ ev' = [op |-> "handleSort"]
  /\ UNCHANGED <<t_data, t_searchTerm, t_currentPage>>

\* a click on a column header
T_handleSort(key) ==
  /\ T_Frame
  /\ T_Rendered
  /\ t_sortConfig' =
       [key |-> key,
        direction |-> IF t_sortConfig.key = key /\ t_sortConfig.direction = "asc"
                      THEN "desc" ELSE "asc"]
  /\ ev' = [op |-> "handleSort"]
  /\ UNCHANGED <<t_data, t_searchTerm, t_currentPage>>

\* the page buttons are rendered when totalPages > 1
T_Previous ==
  /\ T_Frame
  /\ prog \in Paginated
  /\ T_totalPages > 1
  /\ t_currentPage # 1
  /\ t_currentPage' = (IF t_currentPage - 1 > 1 THEN t_currentPage - 1 ELSE 1)
  /\ ev' = [op |-> "previous"]
  /\ UNCHANGED <<t_data, t_searchTerm, t_sortConfig>>

T_Next ==
  /\ T_Frame
  /\ prog \in Paginated
  /\ T_totalPages > 1
  /\ t_currentPage # T_totalPages
  /\ t_currentPage' = (IF t_currentPage + 1 < T_totalPages THEN t_currentPage + 1
                       ELSE T_totalPages)
  /\ ev' = [op |-> "next"]
  /\ UNCHANGED <<t_data, t_searchTerm, t_sortConfig>>

\* the Export CSV button of armaannew.jsx's table
T_exportToCSV ==
  /\ T_Frame
  /\ prog = DashboardTable
  /\ ev' = [op |-> "exportToCSV", csv |-> D_exportToCSV(T_columns, T_sorted)]
  /\ UNCHANGED tvars

\* Whether the parent's next render keeps the table that is mounted.
\* Dashboard and App render the tables of their two root lists as the same
\* element type at the same place (armaannew.jsx:572-595, armaan.jsx:489-540),
\* so the instance and its useState cells live on; AnalyticsDashboard declares
\* its tab components inside its own body (finops.jsx:603-893), so each of its
\* renders mounts new ones.
T_keepsInstance(table) == table # FinopsTable

\* the parent replaces the data prop: a reload of the list shown, or the
\* other root list
T_dataReplaced(data) ==
  /\ T_Frame
  /\ data # t_data
  /\ t_data' = data
  /\ IF T_keepsInstance(prog)
     THEN UNCHANGED <<t_searchTerm, t_sortConfig, t_currentPage>>
     ELSE /\ t_searchTerm' = << >>
          /\ t_sortConfig' = defaultSortConfig
          /\ t_currentPage' = 1
  /\ ev' = [op |-> "dataReplaced"]

\* the parent goes to a view whose table sits elsewhere in the tree (a
\* drill-down, the query list): a new table is mounted
T_Remount(data) ==
  /\ T_Frame
  /\ t_data' = data
  /\ t_searchTerm' = << >>
  /\ t_sortConfig' = defaultSortConfig
  /\ t_currentPage' = 1
  /\ ev' = [op |-> "remount"]

\* no table is mounted on its own while a dashboard is
InitNoTable ==
  /\ t_data = << >>
  /\ t_searchTerm = << >>
  /\ t_sortConfig = defaultSortConfig
  /\ t_currentPage = 1

NextTable ==
  \/ \E value \in SearchTerms : T_setSearchTerm(value)
  \/ \E c \in 1..Len(T_columns) : T_handleSort(T_columns[c].key)
  \/ T_Previous
  \/ T_Next
  \/ T_exportToCSV
  \/ \E data \in Datasets(prog) : T_dataReplaced(data)
  \/ \E data \in Datasets(prog) : T_Remount(data)

----------------------------------------------------------------------------
(* The three components, one per behaviour                                 *)

Init ==
  /\ prog \in {"Dashboard", "App", "AnalyticsDashboard"}
  /\ ev = [op |-> "mount"]
  /\ inflight = CASE prog = "Dashboard" ->
                       << Req("fetchWarehouses", Null, Null, "warehouses"),
                          Req("fetchUsers", 1, Null, "warehouses") >>
                  [] prog = "App" -> << Req("loadInitialData", Null, Null, "warehouses") >>
                  [] prog = "AnalyticsDashboard" -> << Req("refreshData", Null, Null, "overview") >>
  /\ d_isLoading = TRUE
  /\ InitDashboard
  /\ InitApp
  /\ InitFinops
  /\ InitNoTable

Next == NextDashboard \/ NextApp \/ NextFinops

Spec == Init /\ [][Next]_vars

InitOfDashboard == Init /\ prog = "Dashboard"
InitOfApp == Init /\ prog = "App"
InitOfFinops == Init /\ prog = "AnalyticsDashboard"

SpecDashboard == InitOfDashboard /\ [][NextDashboard]_vars
SpecApp == InitOfApp /\ [][NextApp]_vars
SpecFinops == InitOfFinops /\ [][NextFinops]_vars

\* the two components that show the warehouses and users root lists
InitOfRootLists == Init /\ prog \in {"Dashboard", "App"}
NextRootLists == NextDashboard \/ NextApp
SpecRootLists == InitOfRootLists /\ [][NextRootLists]_vars

\* the i-th awaited fetch is one of `kind`, issued by `component`
Awaits(i, component, kind) ==
  i \in 1..Len(inflight) /\ prog = component /\ inflight[i].kind = kind

\* the i-th awaited fetch resolves or rejects and its handler runs on
FetchResolves(i) ==
  \/ Awaits(i, "Dashboard", "fetchWarehouses") /\ \E o \in Outcomes : D_LoadWarehousesDone(i, o)
  \/ Awaits(i, "Dashboard", "fetchUsers") /\ \E o \in Outcomes : D_LoadUsersDone(i, o)
  \/ Awaits(i, "Dashboard", "warehouseDrillDown") /\
       \E o \in Outcomes : D_WarehouseDrillDownDone(i, o)
  \/ Awaits(i, "Dashboard", "userDrillDown") /\ \E o \in Outcomes : D_UserDrillDownDone(i, o)
  \/ Awaits(i, "Dashboard", "fetchQueriesBatch") /\ \E o \in Outcomes : D_QueriesBatchDone(i, o)
  \/ Awaits(i, "Dashboard", "fetchQueryDetails") /\ \E o \in Outcomes : M_QueryDetailsDone(i, o)
  \/ Awaits(i, "App", "loadInitialData") /\
       \E o, usersRes \in A_Outcomes : A_LoadInitialDataDone(i, o, usersRes)
  \/ Awaits(i, "App", "warehouseDrillDown") /\ \E o \in A_Outcomes : A_WarehouseDrillDownDone(i, o)
  \/ Awaits(i, "App", "userDrillDown") /\ \E o \in A_Outcomes : A_UserDrillDownDone(i, o)
  \/ Awaits(i, "App", "viewUserQueries") /\ \E o \in A_Outcomes : A_ViewUserQueriesDone(i, o)
  \/ Awaits(i, "App", "queryDetails") /\ \E o \in A_Outcomes : A_QueryDetailsDone(i, o)
  \/ Awaits(i, "AnalyticsDashboard", "refreshData") /\
       \E failed \in F_FailSets : F_RefreshDone(i, failed)
  \/ Awaits(i, "AnalyticsDashboard", "warehouseDrillDown") /\
       \E o \in Outcomes : F_WarehouseDrillDownDone(i, o)
  \/ Awaits(i, "AnalyticsDashboard", "userDrillDown") /\
       \E o \in Outcomes : F_UserDrillDownDone(i, o)
  \/ Awaits(i, "AnalyticsDashboard", "queryDetails") /\
       \E o \in Outcomes : F_QueryDetailsDone(i, o)

\* every fetch eventually resolves or rejects: the browser settles each
\* promise, and the continuation of an await is run once its promise settled.
\* Fairness on the fetch awaited longest gives it for each fetch, as the ones
\* before it leave the queue.
FetchesResolve == WF_vars(FetchResolves(1))

SpecFetchesResolve == Init /\ [][Next]_vars /\ FetchesResolve

\* a table mounted alone over one of its datasets
InitOfTable ==
  /\ prog \in Tables
  /\ ev = [op |-> "mount"]
  /\ inflight = << >>
  /\ d_isLoading = FALSE
  /\ InitDashboard
  /\ InitApp
  /\ InitFinops
  /\ t_data \in Datasets(prog)
  /\ t_searchTerm = << >>
  /\ t_sortConfig = defaultSortConfig
  /\ t_currentPage = 1
SpecTable == InitOfTable /\ [][NextTable]_vars

----------------------------------------------------------------------------
(* Properties                                                              *)

\* this step is the continuation of an awaited request of one of `kinds`
ResponseStep(kinds) ==
  /\ ev'.op = "response"
  /\ Len(inflight') < Len(inflight)
  /\ ev'.kind \in kinds

FailedResponseStep(kinds) == ResponseStep(kinds) /\ ev'.outcome # "ok"

\* the requests that take the main view somewhere else
D_navKinds == {"warehouseDrillDown", "userDrillDown", "fetchQueriesBatch"}

\* the navigation state of each component
D_nav == <<d_currentView, d_drillDownData, d_queriesData>>
A_nav == <<a_currentView, a_breadcrumbs>>

\* C1: in Dashboard, the response of a drill-down or batch request that was
\* issued from a view that is no longer the current one is discarded: it changes
\* neither currentView nor the drill-down and query datasets.
C1_StaleResponseDiscarded ==
  [][ (prog = "Dashboard" /\ ResponseStep(D_navKinds) /\ ev'.req.from # d_currentView)
      => UNCHANGED D_nav ]_vars

\* C2: in Dashboard, the response of a detail request whose overlay session was
\* closed before it resolved never becomes the record of an overlay that is open
\* for another query.
C2_StaleDetailNotShown ==
  [][ (prog = "Dashboard" /\ ResponseStep({"fetchQueryDetails"}) /\ ev'.req.closed
         /\ d_showQueryModal /\ d_selectedQueryId # ev'.req.a)
      => m_queryDetails' # QueryDetailsResponse(ev'.req.a) ]_vars

\* the breadcrumbs of a query list that handleViewUserQueries opened from the
\* drill-down of selectedWarehouse and selectedKPI
A_crumbsFromDrill ==
  A_navigateBreadcrumbs("user-queries",
     A_context(a_selectedWarehouse, a_selectedKPI, a_selectedUser, "warehouse-drill"), << >>)

\* the breadcrumbs of a query list that handleUserKPIClick opened from the users list
A_crumbsFromUsers ==
  A_navigateBreadcrumbs("user-queries",
     A_context(Undef, a_selectedKPI, a_selectedUser, "users"), << >>)

\* C3: Back from a query list that was opened from a warehouse drill-down shows
\* that drill-down again: the drill-down view, with the same warehouse, column
\* and drill-down dataset.
C3_BackReturnsToDrillDown ==
  [][ /\ (prog = "Dashboard" /\ ev'.op = "backFromQueries" /\ d_origin = "drill-down")
         => (d_currentView' = "drill-down" /\ UNCHANGED d_drillDownData)
      /\ (prog = "App" /\ ev'.op = "historyBack" /\ a_currentView = "user-queries"
            /\ a_breadcrumbs = A_crumbsFromDrill)
         => (a_currentView' = "warehouse-drill"
             /\ UNCHANGED <<a_selectedWarehouse, a_selectedKPI, a_drillDownData>>) ]_vars

\* C4: Back from a query list that was opened from the users root list shows the
\* users root list, whatever was visited before.
C4_BackReturnsToUsers ==
  [][ /\ (prog = "Dashboard" /\ ev'.op = "backFromQueries" /\ d_origin = "users")
         => d_currentView' = "users"
      /\ (prog = "App" /\ ev'.op = "historyBack" /\ a_currentView = "user-queries"
            /\ a_breadcrumbs = A_crumbsFromUsers)
         => a_currentView' = "users" ]_vars

\* C5: the continuation of a failed drill-down, batch or detail request leaves
\* the view, the breadcrumbs and the drill-down, query and detail data as they
\* were, and surfaces an error.
C5_FailureDoesNotAdvance ==
  [][ /\ (prog = "Dashboard" /\ FailedResponseStep(D_navKinds))
         => (UNCHANGED D_nav /\ d_error' # Null)
      /\ (prog = "Dashboard" /\ FailedResponseStep({"fetchQueryDetails"}))
         => (UNCHANGED <<D_nav, m_queryDetails>> /\ m_error' # Null)
      /\ (prog = "App" /\ FailedResponseStep({"warehouseDrillDown", "userDrillDown",
                                              "viewUserQueries", "queryDetails"}))
         => (UNCHANGED <<A_nav, a_drillDownData, a_queriesData, a_queryDetails>>
             /\ a_toast' # NullV /\ a_toast'.type = "error")
      /\ (prog = "AnalyticsDashboard"
            /\ FailedResponseStep({"warehouseDrillDown", "userDrillDown", "queryDetails"}))
         => UNCHANGED <<f_activeTab, f_drillDownData, f_selectedQuery>> ]_vars

\* a click on a cell of a clickable column whose value is 0 or null
InertCellClick ==
  /\ ev'.op \in {"warehouseCellClick", "userCellClick", "warehouseKPIClick", "userKPIClick"}
  /\ ev'.passed
  /\ ev'.row[ev'.col] \in {NumV(0), NullV}

\* C6: a click on a cell of a clickable column whose value is 0 or null issues no
\* request and changes no view, on the warehouses and on the users root list.
C6_ZeroOrNullCellInert ==
  [][ InertCellClick => UNCHANGED <<inflight, d_currentView, a_currentView, A_nav>> ]_vars

\* a click on a cell of a clickable column of the warehouses list whose value is > 0
PositiveWarehouseCellClick ==
  /\ ev'.op \in {"warehouseCellClick", "warehouseKPIClick"}
  /\ ev'.passed
  /\ ev'.row[ev'.col].t = "num" /\ ev'.row[ev'.col].v > 0

\* C7: on the warehouses root list a click on a clickable cell with a value > 0
\* issues exactly one request, the drill-down of that row's warehouse and that
\* column; when it succeeds, the current view is the drill-down of exactly that
\* warehouse and column.
C7_PositiveCellDrillsDown ==
  [][ /\ PositiveWarehouseCellClick
         => inflight' = Append(inflight,
               Req("warehouseDrillDown", ev'.row.WAREHOUSE_NAME, ev'.col, "warehouses"))
      /\ (prog = "Dashboard" /\ ResponseStep({"warehouseDrillDown"}) /\ ev'.outcome = "ok")
         => /\ d_currentView' = "drill-down"
            /\ d_drillDownData'.warehouse_name = ev'.req.a
            /\ d_drillDownData'.column_selected = ev'.req.b
            /\ \A i \in 1..Len(inflight') : inflight'[i].kind # "warehouseDrillDown"
      /\ (prog = "App" /\ ResponseStep({"warehouseDrillDown"}) /\ ev'.outcome = "ok")
         => /\ a_currentView' = "warehouse-drill"
            /\ a_selectedWarehouse' = ev'.req.a
            /\ a_selectedKPI' = ev'.req.b
            /\ a_drillDownData' = A_DrillDownResponse(ev'.req.a, ev'.req.b)
            /\ a_breadcrumbs'[Len(a_breadcrumbs')] =
                  A_crumb(<<ev'.req.a, " - ", ev'.req.b>>, "warehouse-drill")
            /\ inflight' = << >> ]_vars

\* C7 witness: Dashboard shows the drill-down of WH1 / QUERIES_1_10_SEC, whose
\* request just succeeded.
C7_Witness ==
  /\ prog = "Dashboard"
  /\ ev.op = "response" /\ ev.kind = "warehouseDrillDown" /\ ev.outcome = "ok"
  /\ ev.req.a = "WH1" /\ ev.req.b = "QUERIES_1_10_SEC"
  /\ d_currentView = "drill-down"
  /\ d_drillDownData = DrillDownResponse("WH1", "QUERIES_1_10_SEC")

\* C8: closing the detail overlay clears its record, its loading flag and its error.
C8_CloseClearsOverlay ==
  [][ (prog = "Dashboard" /\ ev'.op = "modalClose")
      => (m_queryDetails' = NullV /\ m_isLoading' = FALSE /\ m_error' = Null) ]_vars

\* C9: the response of a detail request during whose wait the overlay was closed
\* does not open the overlay again.
C9_ClosedOverlayStaysClosed ==
  [][ /\ (prog = "AnalyticsDashboard" /\ ResponseStep({"queryDetails"}) /\ ev'.req.closed
            /\ f_selectedQuery = NullV)
         => f_selectedQuery' = NullV
      /\ (prog = "Dashboard" /\ ResponseStep({"fetchQueryDetails"}) /\ ev'.req.closed
            /\ ~d_showQueryModal)
         => ~d_showQueryModal' ]_vars

\* a step of the detail overlay: View Details, the detail response, the close
DetailStep ==
  \/ ev'.op \in {"queryDetailClick", "viewQueryDetails", "modalClose"}
  \/ ResponseStep({"fetchQueryDetails", "queryDetails"})

\* C10: View Details, the detail response and the close leave the
\* current view and the breadcrumbs as they were.
C10_DetailLeavesNavigation ==
  [][ (prog \in {"Dashboard", "App"} /\ DetailStep)
      => UNCHANGED <<d_currentView, A_nav>> ]_vars

\* C11: in App the breadcrumbs have one entry for each level of the path taken:
\* one on a root list, two on a warehouse drill-down, two or three on a query
\* list, and on the query details one more than on the query list they were
\* opened from.
C11_BreadcrumbDepth ==
  prog = "App" =>
    LET n == Len(a_breadcrumbs)
    IN CASE a_currentView \in {"warehouses", "users"} -> n = 1
         [] a_currentView = "warehouse-drill" -> n = 2
         [] a_currentView = "user-queries" -> n \in {2, 3}
         [] a_currentView = "query-details" ->
              n \in {3, 4} /\ a_breadcrumbs[n - 1].view = "user-queries"
         [] OTHER -> FALSE

\* C12: in App the breadcrumbs are never empty and their last entry is the
\* current view.
C12_LastBreadcrumbIsCurrentView ==
  prog = "App" =>
    /\ a_breadcrumbs # << >>
    /\ a_breadcrumbs[Len(a_breadcrumbs)].view = a_currentView

\* C12 witness: a click on a breadcrumb has led from the query details back to
\* the query list, which is the last entry again.
C12_Witness ==
  /\ prog = "App"
  /\ ev.op = "breadcrumbClick" /\ ev.view = "user-queries"
  /\ a_currentView = "user-queries"
  /\ a_breadcrumbs[Len(a_breadcrumbs)].view = "user-queries"
  /\ a_queryDetails # NullV

\* C13: in App the selected context names the request that produced the dataset
\* on show: on a warehouse drill-down drillDownData is the response for
\* selectedWarehouse and selectedKPI, on a query list queriesData is the
\* response for selectedUser and selectedKPI.
C13_ContextReproducesDataset ==
  prog = "App" =>
    /\ a_currentView = "warehouse-drill"
         => a_drillDownData = A_DrillDownResponse(a_selectedWarehouse, a_selectedKPI)
    /\ a_currentView = "user-queries"
         => a_queriesData = A_UserQueriesResponse(a_selectedUser, a_selectedKPI)

\* the datasets each component keeps
D_datasets == <<d_warehouses, d_users, d_drillDownData, d_queriesData>>
A_datasets == <<a_warehousesData, a_usersData, a_drillDownData, a_queriesData, a_queryDetails>>

\* C14: a failed root-list load, refresh or drill-down leaves every stored
\* dataset as it was; in AnalyticsDashboard a refresh leaves the dataset of each
\* endpoint that failed as it was loaded before.
C14_FailedLoadKeepsDatasets ==
  [][ /\ (prog = "Dashboard"
            /\ FailedResponseStep({"fetchWarehouses", "fetchUsers"} \cup D_navKinds))
         => UNCHANGED D_datasets
      /\ (prog = "App"
            /\ FailedResponseStep({"loadInitialData", "warehouseDrillDown", "userDrillDown",
                                   "viewUserQueries", "queryDetails"}))
         => UNCHANGED A_datasets
      /\ (prog = "AnalyticsDashboard" /\ ResponseStep({"refreshData"}) /\ f_data # EmptyObj)
         => \A e \in ev'.outcome : f_data'[e] = f_data[e] ]_vars

\* C15: a non-2xx response, and a response whose body says success false, is a
\* failure on every request path: its continuation stores no dataset and changes
\* no view.
C15_FailureResponsesRejected ==
  [][ /\ (prog = "Dashboard" /\ ev'.op = "response" /\ Len(inflight') < Len(inflight)
            /\ ev'.outcome = "status")
         => UNCHANGED <<D_datasets, m_queryDetails, d_currentView>>
      /\ (prog = "App" /\ ev'.op = "response" /\ Len(inflight') < Len(inflight)
            /\ ev'.outcome \in {"status", "unsuccessful"})
         => UNCHANGED <<A_datasets, A_nav>>
      /\ (prog = "AnalyticsDashboard"
            /\ ResponseStep({"warehouseDrillDown", "userDrillDown", "queryDetails"})
            /\ ev'.outcome = "status")
         => UNCHANGED <<f_activeTab, f_drillDownData, f_selectedQuery>> ]_vars

\* C16: the continuation of every failed fetch leaves a notification on show: an
\* error in Dashboard or in its overlay, an error toast in App.
C16_FailureIsNotified ==
  [][ /\ (prog = "Dashboard"
            /\ FailedResponseStep({"fetchWarehouses", "fetchUsers"} \cup D_navKinds))
         => d_error' # Null
      /\ (prog = "Dashboard" /\ FailedResponseStep({"fetchQueryDetails"}))
         => m_error' # Null
      /\ (prog = "App"
            /\ FailedResponseStep({"loadInitialData", "warehouseDrillDown", "userDrillDown",
                                   "viewUserQueries", "queryDetails"}))
         => (a_toast' # NullV /\ a_toast'.type = "error") ]_vars

\* C17: in Dashboard, Retry on the error of a failed warehouses load issues a
\* warehouses load, whichever tab is selected.
C17_RetryReissuesFailedLoad ==
  [][ (prog = "Dashboard" /\ ev'.op = "retry"
         /\ d_error = D_errorMessage("fetchWarehouses"))
      => inflight' = Append(inflight, Req("fetchWarehouses", Null, Null, d_currentView)) ]_vars

\* C18: a failed load does not end in the state a successful load of zero rows
\* ends in, an empty dataset with no error on show.
C18_FailureDiffersFromEmpty ==
  [][ /\ (prog = "AnalyticsDashboard" /\ ResponseStep({"refreshData"}))
         => \A e \in ev'.outcome : f_data'[e] # << >>
      /\ (prog = "Dashboard" /\ FailedResponseStep({"fetchWarehouses"}))
         => ~(d_warehouses' = << >> /\ d_error' = Null)
      /\ (prog = "Dashboard" /\ FailedResponseStep({"fetchUsers"}))
         => ~(d_users' = << >> /\ d_error' = Null)
      /\ (prog = "App" /\ FailedResponseStep({"loadInitialData"}))
         => ~(a_warehousesData' = << >> /\ a_usersData' = << >> /\ a_toast'.type # "error")
    ]_vars

\* C20: no two requests awaited at once come from the same control: the same
\* kind of request with the same arguments, issued from the same view.
C20_OneRequestPerControl ==
  \A i, j \in 1..Len(inflight) :
    (i < j /\ inflight[i].kind = inflight[j].kind
       /\ inflight[i].a = inflight[j].a /\ inflight[i].b = inflight[j].b)
    => inflight[i].from # inflight[j].from

\* C19: in Dashboard the response of the load of the users list issued on mount
\* never replaces the response of a load issued after it: the users stored are
\* those of the load issued last among the loads that have answered.
C19_LastRequestWins ==
  [][ (prog = "Dashboard" /\ ResponseStep({"fetchUsers"}) /\ ev'.outcome = "ok")
      => D_usersLoaded' >= D_usersLoaded ]_vars

\* C21: in a paginated table the current page is always between 1 and
\* totalPages = ceil(|filtered and sorted data| / itemsPerPage), so the page
\* shown has a row whenever a record passes the filter (with no such record
\* totalPages is 0 and only 1 <= page is asked)
C21_PageWithinTotalPages ==
  prog \in Paginated =>
    /\ 1 <= t_currentPage
    /\ T_sorted # << >> => (t_currentPage <= T_totalPages /\ T_visible # << >>)

\* a step in which the parent gives the table another dataset
DatasetReplaced == ev'.op \in {"dataReplaced", "remount"}

\* C22: whenever the dataset of a table is replaced (a reload, the other root
\* list, a drill-down result) the table shows the new dataset with its query
\* state at the default: searchTerm "", no sort key, page 1
C22_ReplacedDatasetResetsQuery ==
  [][DatasetReplaced =>
       /\ t_searchTerm' = << >>
       /\ t_sortConfig'.key = Null
       /\ t_currentPage' = 1]_vars

\* the request that reloads a root list
D_rootKind(view) == IF view = "warehouses" THEN "fetchWarehouses" ELSE "fetchUsers"

\* C23: Refresh on a root list of Dashboard issues the one request that reloads
\* that list and leaves the current view and every dataset as they are; the
\* continuation of a root-list load, on success and on failure, leaves the
\* current view and the datasets of every other source as they are, and stores
\* the loaded dataset on success only.  (Dashboard keeps no breadcrumbs.)
C23_RefreshReloadsOneList ==
  [][ /\ (ev'.op = "refresh" /\ d_currentView \in {"warehouses", "users"}) =>
           /\ d_currentView' = d_currentView
           /\ D_datasets' = D_datasets
           /\ Len(inflight') = Len(inflight) + 1
           /\ SubSeq(inflight', 1, Len(inflight)) = inflight
           /\ inflight'[Len(inflight')].kind = D_rootKind(d_currentView)
      /\ ResponseStep({"fetchWarehouses"}) =>
           /\ d_currentView' = d_currentView
           /\ <<d_users, d_drillDownData, d_queriesData>>'
                = <<d_users, d_drillDownData, d_queriesData>>
           /\ d_warehouses' = (IF ev'.outcome = "ok" THEN ServerWarehouses ELSE d_warehouses)
      /\ ResponseStep({"fetchUsers"}) =>
           /\ d_currentView' = d_currentView
           /\ <<d_warehouses, d_drillDownData, d_queriesData>>'
                = <<d_warehouses, d_drillDownData, d_queriesData>>
           /\ d_users' = (IF ev'.outcome = "ok" THEN ServerUsersAt(ev'.req.a) ELSE d_users)
    ]_vars

\* Refresh was pressed on the users list while the warehouses are loaded, and
\* its request is the one awaited last
C23_Witness ==
  /\ prog = "Dashboard"
  /\ ev.op = "refresh" /\ ev.view = "users"
  /\ d_warehouses # << >>
  /\ inflight # << >>
  /\ inflight[Len(inflight)].kind = "fetchUsers"
  /\ inflight[Len(inflight)].from = "users"

\* C24: View Queries on a drill-down row whose id list is empty issues no
\* request and leaves the view as it is; on a row with ids it issues the one
\* request for the query list of those ids
C24_ViewQueriesNeedsIds ==
  [][ev'.op = "drillDownUserClick" =>
        IF ev'.queryIds = << >>
        THEN inflight' = inflight /\ d_currentView' = d_currentView
        ELSE /\ Len(inflight') = Len(inflight) + 1
             /\ inflight'[Len(inflight')].kind = "fetchQueriesBatch"
             /\ inflight'[Len(inflight')].a = ev'.queryIds]_vars

T_filtered == filteredData(prog, t_data, t_searchTerm)

\* f is data with some of its elements left out
RECURSIVE IsSubSeqOf(_, _)
IsSubSeqOf(f, data) ==
  IF f = << >> THEN TRUE
  ELSE IF data = << >> THEN FALSE
  ELSE IF f[Len(f)] = data[Len(data)]
       THEN IsSubSeqOf(SubSeq(f, 1, Len(f) - 1), SubSeq(data, 1, Len(data) - 1))
       ELSE IsSubSeqOf(f, SubSeq(data, 1, Len(data) - 1))

\* the records of data, in the order of data, that have a cell whose string
\* form contains searchTerm, letter case aside
Containing(data, searchTerm) ==
  SelectSeq(data, LAMBDA row :
     \E k \in DOMAIN row :
        includes(toLowerCase(JS_String(row[k])), toLowerCase(searchTerm)))

\* C25 as stated: for every dataset and every search term the filtered data is
\* a sub-sequence of the dataset, no longer than it, and holds exactly the
\* records with a cell that contains the term
C25_FilterKeepsExactlyMatches ==
  prog \in Tables =>
    /\ IsSubSeqOf(T_filtered, t_data)
    /\ Len(T_filtered) <= Len(t_data)
    /\ T_filtered = Containing(t_data, t_searchTerm)

\* C25: for every dataset and every search term the filtered data is a
\* sub-sequence of the dataset, no longer than it; for a search term that is
\* not empty it holds exactly the records with a cell that contains the term
C25_FilterKeepsMatches ==
  prog \in Tables =>
    /\ IsSubSeqOf(T_filtered, t_data)
    /\ Len(T_filtered) <= Len(t_data)
    /\ t_searchTerm # << >> => T_filtered = Containing(t_data, t_searchTerm)

\* "B" is searched among rows of which one has a lower-case b and no other
\* has either b
C25_Witness ==
  /\ prog \in Tables
  /\ t_data = OddRows
  /\ t_searchTerm = << "B" >>
  /\ Len(T_filtered) = 1
  /\ T_filtered[1].n = Str(<< "a", ",", "b" >>)

\* C26: with an empty search term every table shows its whole dataset, also a
\* dataset that holds a record with no fields
C26_EmptyTermIsIdentity ==
  (prog \in Tables /\ t_searchTerm = << >>) => T_filtered = t_data

\* the value a record has for the sort key is null or undefined
KeyMissing(row) == Get(row, t_sortConfig.key) \in {NullV, UndefV}

\* C27: in the sorted data of every table, ascending and descending, no record
\* whose value for the sort key is null or undefined stands before a record
\* with a defined value
C27_MissingKeysLast ==
  (prog \in Tables /\ t_sortConfig.key # Null) =>
    LET sorted == T_sorted
    IN \A i, j \in 1..Len(sorted) :
          (i < j /\ KeyMissing(sorted[i])) => KeyMissing(sorted[j])

\* the filtered data sorted ascending by the current sort key, and that sorted
\* descending
T_asc == ArraySort(T_filtered, prog, [key |-> t_sortConfig.key, direction |-> "asc"])
T_ascThenDesc == ArraySort(T_asc, prog, [key |-> t_sortConfig.key, direction |-> "desc"])

\* two records have equal keys: the comparator of the table returns 0 for them
SameKey(a, b) == compare(prog, a, b, [key |-> t_sortConfig.key, direction |-> "asc"]) = 0

\* s with the order of its runs of equal keys reversed and the order inside
\* each run kept
ReverseRuns(s) ==
  LET n == Len(s)
      ends == {j \in 1..n : j = n \/ ~SameKey(s[j], s[j + 1])}
      first(i) == IF \E b \in ends : b < i
                  THEN 1 + CHOOSE b \in ends : b < i /\ \A c \in ends : c < i => c <= b
                  ELSE 1
      last(i) == CHOOSE b \in ends : b >= i /\ \A c \in ends : c >= i => b <= c
  IN [p \in 1..n |-> s[CHOOSE i \in 1..n : n - last(i) + 1 + (i - first(i)) = p]]

\* C28 as stated: for every dataset and sort key, sorting the ascending order
\* descending gives the ascending order reversed, runs of equal keys keeping
\* their order
C28_DescReversesAsc ==
  (prog \in Paginated /\ t_sortConfig.key # Null) => T_ascThenDesc = ReverseRuns(T_asc)

\* every record the filter lets through has a value for the sort key
AllKeysDefined == \A i \in 1..Len(T_filtered) : ~KeyMissing(T_filtered[i])

\* C28: for every dataset whose records all have a value for the sort key,
\* sorting the ascending order descending gives the ascending order reversed,
\* runs of equal keys keeping their order
C28_DescReversesAscOfDefinedKeys ==
  (prog \in Paginated /\ t_sortConfig.key # Null /\ AllKeysDefined)
     => T_ascThenDesc = ReverseRuns(T_asc)

\* a page and one row sorted by a key that has three values, each in many rows
C28_Witness ==
  /\ prog \in Paginated
  /\ t_data = PagedRows(prog)
  /\ t_searchTerm = << >>
  /\ t_sortConfig.key = "q"
  /\ T_ascThenDesc # T_asc
  /\ Get(T_ascThenDesc[1], "q") = NumV(2)
  /\ Get(T_ascThenDesc[Len(T_asc)], "q") = NumV(0)

\* the text of the exported file up to its first line break
HeaderLine(csv) ==
  LET breaks == {i \in 1..Len(csv) : csv[i] = "\n"}
  IN IF breaks = {} THEN csv
     ELSE SubSeq(csv, 1, (CHOOSE i \in breaks : \A j \in breaks : i <= j) - 1)

\* the number of lines the exported text splits into
NumLines(csv) == Cardinality({i \in 1..Len(csv) : csv[i] = "\n"}) + 1

\* C29: the file written by Export CSV starts with one header row made of the
\* labels of the columns, in the order of the columns
C29_HeaderRowOfLabels ==
  (prog = DashboardTable /\ ev.op = "exportToCSV") =>
     HeaderLine(ev.csv)
       = Join([c \in 1..Len(T_columns) |-> T_columns[c].label], << "," >>)

\* a cell written so that a reader of the file gets the value back: the string
\* form of the value (nothing for null and undefined) between quotes, each
\* quote in it doubled
QuotedCell(value) ==
  LET text == IF value \in {NullV, UndefV} THEN << >> ELSE JS_String(value)
  IN << "\"" >>
     \o Join([i \in 1..Len(text) |->
                IF text[i] = "\"" THEN << "\"", "\"" >> ELSE << text[i] >>], << >>)
     \o << "\"" >>

\* one line per record of data, its cells in the order of the columns
QuotedRows(columns, data) ==
  [r \in 1..Len(data) |->
     Join([c \in 1..Len(columns) |-> QuotedCell(Get(data[r], columns[c].key))], << "," >>)]

\* C30: whatever the search term, sort and page of the table, the exported text
\* splits into one line per record of the dataset plus the header, and after
\* the header it is the records of the dataset written so that reading the
\* file gives every value back: 0, empty values and values with a quote, a
\* comma or a line break included
C30_ExportRoundTrips ==
  (prog = DashboardTable /\ ev.op = "exportToCSV") =>
     /\ NumLines(ev.csv) = Len(t_data) + 1
     /\ \E rows \in {QuotedRows(T_columns, t_data)} \cup
                    {QuotedRows(T_columns, ArraySort(t_data, prog, t_sortConfig))} :
           ev.csv = Join(<< HeaderLine(ev.csv) >> \o rows, << "\n" >>)

\* a sorts strictly before b: as numbers when both are numbers, otherwise as
\* lower-cased text
KeyBefore(a, b) ==
  IF a.t = "num" /\ b.t = "num" THEN a.v < b.v
  ELSE StrLT(toLowerCase(JS_String(a)), toLowerCase(JS_String(b)))

\* C31: in the sorted data of every table no record stands right before one
\* that sorts strictly before it, keys compared as numbers when both are
\* numbers and as lower-cased text otherwise (records without a key aside)
C31_NumericOrLowerCasedOrder ==
  (prog \in Tables /\ t_sortConfig.key # Null) =>
    LET sorted == T_sorted
        key == t_sortConfig.key
    IN \A i \in 1..Len(sorted) - 1 :
          (~KeyMissing(sorted[i]) /\ ~KeyMissing(sorted[i + 1])) =>
             IF t_sortConfig.direction = "asc"
             THEN ~KeyBefore(Get(sorted[i + 1], key), Get(sorted[i], key))
             ELSE ~KeyBefore(Get(sorted[i], key), Get(sorted[i + 1], key))

\* the step leaves the mounted table instance, and so its state cells, in place
T_sameInstance ==
  /\ ev'.op # "remount"
  /\ ev'.op = "dataReplaced" => T_keepsInstance(prog)

\* what a header click leaves in sortConfig
SortToggled ==
  /\ t_sortConfig'.key # Null
  /\ \E c \in 1..Len(T_columns) : t_sortConfig'.key = T_columns[c].key
  /\ t_sortConfig'.direction =
       IF t_sortConfig.key = t_sortConfig'.key /\ t_sortConfig.direction = "asc"
       THEN "desc" ELSE "asc"

\* C32: a header click sets the sort to the clicked column, descending when
\* that column was sorted ascending and ascending in every other case (column
\* unsorted, another column sorted, or that column sorted descending); while
\* the table instance lives, a sort key once set never returns to unsorted
C32_SortToggle ==
  [][(prog \in Tables) =>
       ((ev'.op = "handleSort" => SortToggled) /\
        ((T_sameInstance /\ t_sortConfig.key # Null) => t_sortConfig'.key # Null))]_vars

\* a second click on the column sorted ascending has set it descending
C32_Witness ==
  /\ prog \in Tables
  /\ ev.op = "handleSort"
  /\ t_sortConfig = [key |-> "q", direction |-> "desc"]

\* Math.min
Min(a, b) == IF a < b THEN a ELSE b

\* C33: on every render the number of rows shown is at most the number of
\* rows after the filter, which is at most the number of rows of the source;
\* in a paginated table the number shown is at most the page size and equals
\* min(pageSize, afterFilter - (page - 1) * pageSize)
C33_CountsConsistent ==
  (prog \in Tables /\ T_Rendered) =>
    /\ Len(T_visible) <= Len(T_sorted)
    /\ Len(T_sorted) <= Len(t_data)
    /\ prog \in Paginated =>
         /\ Len(T_visible) <= itemsPerPage(prog)
         /\ Len(T_visible) =
              Min(itemsPerPage(prog), Len(T_sorted) - (t_currentPage - 1) * itemsPerPage(prog))

\* C34: in AnalyticsDashboard loading is true whenever a request started by
\* refreshData, handleWarehouseDrillDown, handleUserDrillDown or
\* handleQueryDetails is still unresolved
C34_LoadingWhileRequestUnresolved ==
  (prog = "AnalyticsDashboard" /\
   \E i \in 1..Len(inflight) :
      inflight[i].kind \in {"refreshData", "warehouseDrillDown", "userDrillDown", "queryDetails"})
    => f_loading

\* the loading flag of the component that runs: isLoading of Dashboard, loading
\* of App and of AnalyticsDashboard
Loading ==
  \/ prog = "Dashboard" /\ d_isLoading
  \/ prog = "App" /\ a_loading
  \/ prog = "AnalyticsDashboard" /\ f_loading

\* isLoading of Dashboard's QueryDetailsModal
ModalLoading == prog = "Dashboard" /\ m_isLoading

\* C35: when every fetch eventually resolves or rejects, a loading flag that
\* is true (isLoading of Dashboard and of its QueryDetailsModal, loading of
\* App and of AnalyticsDashboard) is eventually false again: each flag is
\* false infinitely often, which says the same as flag ~> ~flag
C35_LoadingEventuallyClears ==
  /\ []<>~Loading
  /\ []<>~ModalLoading

\* a rejected drill-down fetch has left the loading flag false
C35_Witness ==
  /\ ev.op = "response"
  /\ ev.kind \in {"warehouseDrillDown", "queryDetails"}
  /\ ev.outcome = "network"
  /\ ~Loading

\* the results a successful warehouse drill-down can store
D_drillDownResults ==
  {DrillDownResponse(ServerWarehouses[r].WAREHOUSE_NAME, c) :
     r \in 1..Len(ServerWarehouses), c \in clickableWarehouseColumns}

\* this step is the continuation of a request of one of `kinds` that succeeded
SuccessfulResponseStep(kinds) == ResponseStep(kinds) /\ ev'.outcome = "ok"

\* what a step of Dashboard leaves true of its data views
D_viewHasData ==
  /\ d_currentView' = "drill-down" => d_drillDownData' \in D_drillDownResults
  /\ (d_currentView' = "drill-down" /\ d_currentView # "drill-down") =>
        \/ SuccessfulResponseStep({"warehouseDrillDown"})
        \/ ev'.op = "backFromQueries"
  /\ (d_currentView' = "queries" /\ d_currentView # "queries") =>
        SuccessfulResponseStep({"userDrillDown", "fetchQueriesBatch"})

A_drillDownResults ==
  {A_DrillDownResponse(ServerWarehouses[r].WAREHOUSE_NAME, kpi) :
     r \in 1..Len(ServerWarehouses), kpi \in A_warehouseColumns}

\* C37: in App the view is 'warehouse-drill' only while drillDownData holds
\* the response of a successful warehouse drill-down
C37_WarehouseDrillHasData ==
  (prog = "App" /\ a_currentView = "warehouse-drill") => a_drillDownData \in A_drillDownResults

\* the controls that renderContent draws inside a view
D_viewOps ==
  {"warehouseCellClick", "userCellClick", "drillDownUserClick", "backToWarehouses",
   "backFromQueries", "queryDetailClick"}

\* what a step of Dashboard does about the error
D_errorKept ==
  /\ (d_error # Null /\ ev'.op \notin {"retry", "refresh"}) => d_error' # Null
  /\ ev'.op \in {"retry", "refresh"} => (d_error' = Null /\ UNCHANGED d_currentView)
  /\ d_error # Null => ev'.op \notin D_viewOps

\* C38: in Dashboard an error that is set stays set over every step but Retry
\* and Refresh (tab switches and responses, successful ones included); Retry
\* and Refresh clear it and leave currentView unchanged; while it is set no
\* control of a view can be used, the error panel being rendered instead
C38_ErrorStaysUntilRetryOrRefresh ==
  [][(prog = "Dashboard") => D_errorKept]_vars

\* a successful response arrived while the error was set, and left it set
C38_Witness ==
  /\ prog = "Dashboard"
  /\ ev.op = "response" /\ ev.outcome = "ok"
  /\ d_error # Null

\* C39: the continuation of App.loadInitialData replaces warehousesData and
\* usersData, both, if both requests succeeded, and shows a success toast; if
\* either failed it changes neither and shows one error toast; in both cases
\* currentView and breadcrumbs are unchanged
C39_InitialDataAllOrNothing ==
  [][(prog = "App" /\ ResponseStep({"loadInitialData"})) =>
       /\ UNCHANGED <<a_currentView, a_breadcrumbs>>
       /\ IF ev'.settled = <<"ok", "ok">>
          THEN /\ a_warehousesData' = ServerWarehouses
               /\ a_usersData' = A_ServerUsers
               /\ a_toast'.type = "success"
          ELSE /\ UNCHANGED <<a_warehousesData, a_usersData>>
               /\ a_toast'.type = "error"
               /\ a_toast'.message[2] \in {ev'.settled[1], ev'.settled[2]} \ {"ok"}]_vars

\* the warehouses request succeeded, the users request failed, and nothing is
\* stored
C39_Witness ==
  /\ prog = "App"
  /\ ev.op = "response" /\ ev.kind = "loadInitialData"
  /\ ev.settled = <<"ok", "network">>
  /\ a_warehousesData = << >> /\ a_usersData = << >>
  /\ a_toast # NullV /\ a_toast.type = "error"

====
